---------------------------- MODULE Spec2Model ----------------------------
(***************************************************************************)
(* A model of the RM pro-forma projection of Backend-Flask                 *)
(* (RMProForma_Calculations.py) and of the route that calls it             *)
(* (routes.py, RMProFormaCalculation.post).                                 *)
(*                                                                         *)
(* Numbers.  A Python float is modelled as a fixed-point integer: the      *)
(* float x is the integer x * Scale, and every product and quotient is     *)
(* rounded towards zero to that grid (the float rounds to its own grid).   *)
(* Money is in units of 10,000, so that every value stays inside TLC's      *)
(* integers.                                                               *)
(* Strings are sequences of one-character strings, so that parsing is      *)
(* computed character by character as the code does.                       *)
(***************************************************************************)
EXTENDS Integers, Sequences, FiniteSets, TLC

(***************************************************************************)
(* Fixed-point arithmetic                                                  *)
(***************************************************************************)

\* resolution of the fixed-point grid: 1/Scale
Scale == 100 * 100

\* the cell value a DataFrame created without data holds (pandas NaN)
NaN == 0 - (2 ^ 30)

\* float('inf')
Inf == 2 ^ 30

Abs(x) == IF x < 0 THEN 0 - x ELSE x

Sgn(x) == IF x < 0 THEN 0 - 1 ELSE 1

Min(a, b) == IF a <= b THEN a ELSE b

\* float(n) for a Python int n
FromInt(n) == n * Scale

\* a * b of two floats; the four partial products keep the intermediate
\* values inside the integers
Mul(a, b) ==
    LET x == Abs(a)
        y == Abs(b)
        x1 == x \div Scale
        x0 == x % Scale
        y1 == y \div Scale
        y0 == y % Scale
    IN  Sgn(a) * Sgn(b) * (x1 * y1 * Scale + x1 * y0 + x0 * y1 + (x0 * y0) \div Scale)

\* the first k decimal digits of r / b for 0 <= r < b (long division)
RECURSIVE DivDigits(_, _, _)
DivDigits(r, b, k) ==
    IF k = 0 THEN 0
    ELSE LET t == r * 10
         IN  (t \div b) * (10 ^ (k - 1)) + DivDigits(t % b, b, k - 1)

\* a / b of two floats, b # 0 (Python raises ZeroDivisionError for b = 0:
\* the callers test for it and raise)
Div(a, b) ==
    LET x == Abs(a)
        y == Abs(b)
    IN  Sgn(a) * Sgn(b) * ((x \div y) * Scale + DivDigits(x % y, y, 4))

\* a ** n for a float a and a Python int n >= 0
RECURSIVE Pow(_, _)
Pow(a, n) == IF n = 0 THEN FromInt(1) ELSE Mul(a, Pow(a, n - 1))

(***************************************************************************)
(* Strings                                                                 *)
(***************************************************************************)

Digits == {"0", "1", "2", "3", "4", "5", "6", "7", "8", "9"}

DigitVal ==
    "0" :> 0 @@ "1" :> 1 @@ "2" :> 2 @@ "3" :> 3 @@ "4" :> 4 @@
    "5" :> 5 @@ "6" :> 6 @@ "7" :> 7 @@ "8" :> 8 @@ "9" :> 9

DigitChar == <<"0", "1", "2", "3", "4", "5", "6", "7", "8", "9">>

IsSpace(c) == c = " "

\* str.lstrip() / str.rstrip() / str.strip()
RECURSIVE LStrip(_)
LStrip(s) == IF s # <<>> /\ IsSpace(Head(s)) THEN LStrip(Tail(s)) ELSE s

RECURSIVE RStrip(_)
RStrip(s) ==
    IF s # <<>> /\ IsSpace(s[Len(s)]) THEN RStrip(SubSeq(s, 1, Len(s) - 1)) ELSE s

Strip(s) == LStrip(RStrip(s))

\* str.rstrip('%'): every trailing percent sign is removed
RECURSIVE RStripPercent(_)
RStripPercent(s) ==
    IF s # <<>> /\ s[Len(s)] = "%" THEN RStripPercent(SubSeq(s, 1, Len(s) - 1)) ELSE s

\* re.sub(r'[^\d.-]', '', value)
ReSubNonNumeric(s) == SelectSeq(s, LAMBDA c : c \in Digits \cup {".", "-"})

AllDigits(s) == \A k \in 1..Len(s) : s[k] \in Digits

\* the value of a digit string as an integer
RECURSIVE DigitsVal(_)
DigitsVal(s) ==
    IF s = <<>> THEN 0 ELSE DigitsVal(SubSeq(s, 1, Len(s) - 1)) * 10 + DigitVal[s[Len(s)]]

\* the position of the first c in s, 0 if there is none
RECURSIVE IndexOf(_, _, _)
IndexOf(s, c, k) ==
    IF k > Len(s) THEN 0 ELSE IF s[k] = c THEN k ELSE IndexOf(s, c, k + 1)

\* the fraction digits f as a count of 1/Scale (digits past the grid are cut)
FracVal(f) ==
    LET g == IF Len(f) > 4 THEN SubSeq(f, 1, 4) ELSE f
    IN  DigitsVal(g) * (10 ^ (4 - Len(g)))

\* float(s) for a string s: surrounding blanks are dropped, then an optional
\* sign, digits, an optional point and digits, at least one digit in all.
\* FloatOk says whether float(s) returns; FloatVal is what it returns.
FloatBody(s) ==
    LET t == Strip(s)
    IN  IF t # <<>> /\ Head(t) \in {"-", "+"} THEN Tail(t) ELSE t

FloatNeg(s) == LET t == Strip(s) IN t # <<>> /\ Head(t) = "-"

FloatOk(s) ==
    LET b == FloatBody(s)
        p == IndexOf(b, ".", 1)
        ip == IF p = 0 THEN b ELSE SubSeq(b, 1, p - 1)
        fp == IF p = 0 THEN <<>> ELSE SubSeq(b, p + 1, Len(b))
    IN  /\ AllDigits(ip)
        /\ AllDigits(fp)
        /\ Len(ip) + Len(fp) > 0

FloatVal(s) ==
    LET b == FloatBody(s)
        p == IndexOf(b, ".", 1)
        ip == IF p = 0 THEN b ELSE SubSeq(b, 1, p - 1)
        fp == IF p = 0 THEN <<>> ELSE SubSeq(b, p + 1, Len(b))
        v == DigitsVal(ip) * Scale + FracVal(fp)
    IN  IF FloatNeg(s) THEN 0 - v ELSE v

(***************************************************************************)
(* Dates: the date y-m-d is the integer y*10000 + m*100 + d, so that the   *)
(* order of dates is the order of the integers                             *)
(***************************************************************************)

MkDate(y, m, d) == y * 10000 + m * 100 + d

YearOf(dt) == dt \div 10000

MonthOf(dt) == (dt \div 100) % 100

DayOf(dt) == dt % 100

IsLeap(y) == (y % 4 = 0 /\ y % 100 # 0) \/ y % 400 = 0

DaysInMonth(y, m) ==
    IF m = 2 THEN (IF IsLeap(y) THEN 29 ELSE 28)
    ELSE IF m \in {4, 6, 9, 11} THEN 30 ELSE 31

\* the days of year y before month m
RECURSIVE DaysBeforeMonth(_, _)
DaysBeforeMonth(y, m) ==
    IF m = 1 THEN 0 ELSE DaysBeforeMonth(y, m - 1) + DaysInMonth(y, m - 1)

\* the days before 1 January of year y (date.toordinal)
DaysBeforeYear(y) ==
    LET z == y - 1 IN (z * 365) + (z \div 4) - (z \div 100) + (z \div 400)

Ordinal(dt) == DaysBeforeYear(YearOf(dt)) + DaysBeforeMonth(YearOf(dt), MonthOf(dt)) + DayOf(dt)

\* the month count of a date, for month arithmetic
MonthIndex(dt) == YearOf(dt) * 12 + (MonthOf(dt) - 1)

\* the first day of the month with month count k
MonthStart(k) == MkDate(k \div 12, (k % 12) + 1, 1)

\* dt + relativedelta(years=n) and dt + pd.DateOffset(years=n): the day is
\* cut to the length of the month
AddYears(dt, n) ==
    LET y == YearOf(dt) + n
    IN  MkDate(y, MonthOf(dt), Min(DayOf(dt), DaysInMonth(y, MonthOf(dt))))

\* the text "YYYY-MM-DD" of a date
DateStr(dt) ==
    LET y == YearOf(dt)
        m == MonthOf(dt)
        d == DayOf(dt)
    IN  << DigitChar[((y \div 1000) % 10) + 1], DigitChar[((y \div 100) % 10) + 1],
           DigitChar[((y \div 10) % 10) + 1], DigitChar[(y % 10) + 1], "-",
           DigitChar[(m \div 10) + 1], DigitChar[(m % 10) + 1], "-",
           DigitChar[(d \div 10) + 1], DigitChar[(d % 10) + 1] >>

\* datetime.strptime(s, "%Y-%m-%d"): four digits, one or two digits, one or
\* two digits, separated by '-', naming a day that exists
StrptimeParts(s) ==
    LET p1 == IndexOf(s, "-", 1)
        p2 == IF p1 = 0 THEN 0 ELSE IndexOf(s, "-", p1 + 1)
    IN  IF p1 = 0 \/ p2 = 0 THEN <<>>
        ELSE << SubSeq(s, 1, p1 - 1), SubSeq(s, p1 + 1, p2 - 1), SubSeq(s, p2 + 1, Len(s)) >>

StrptimeOk(s) ==
    LET ps == StrptimeParts(s)
    IN  /\ ps # <<>>
        /\ Len(ps[1]) = 4 /\ AllDigits(ps[1])
        /\ Len(ps[2]) \in {1, 2} /\ AllDigits(ps[2])
        /\ Len(ps[3]) \in {1, 2} /\ AllDigits(ps[3])
        /\ DigitsVal(ps[1]) >= 1
        /\ DigitsVal(ps[2]) \in 1..12
        /\ DigitsVal(ps[3]) >= 1
        /\ DigitsVal(ps[3]) <= DaysInMonth(DigitsVal(ps[1]), DigitsVal(ps[2]))

StrptimeVal(s) ==
    LET ps == StrptimeParts(s)
    IN  MkDate(DigitsVal(ps[1]), DigitsVal(ps[2]), DigitsVal(ps[3]))

(***************************************************************************)
(* Loosely typed input values: a value carries its Python type in k        *)
(***************************************************************************)

PyInt(n) == [k |-> "int", n |-> n]

PyFloat(x) == [k |-> "float", n |-> x]

PyBool(b) == [k |-> "bool", n |-> IF b THEN 1 ELSE 0]

PyStr(s) == [k |-> "str", s |-> s]

PyNone == [k |-> "none"]

PyDate(dt) == [k |-> "date", n |-> dt]

PyDatetime(dt) == [k |-> "datetime", n |-> dt]

PyList(items) == [k |-> "list", items |-> items]

\* isinstance(value, (int, float)): bool is a subclass of int
IsNumeric(v) == v.k \in {"int", "float", "bool"}

\* float(value) for a numeric value
NumVal(v) == IF v.k = "float" THEN v.n ELSE FromInt(v.n)

\* an exception: its class, its message, the field the message names and
\* the date the message names (0: no message of the module names a date,
\* the date of a failing month goes to the log alone)
Exc(cls, text, field) ==
    [exc |-> cls, origin |-> cls, text |-> text, field |-> field, date |-> 0,
     prefixes |-> <<>>]

NoError ==
    [exc |-> "none", origin |-> "none", text |-> "", field |-> "", date |-> 0,
     prefixes |-> <<>>]

(***************************************************************************)
(* The parsers of RMProFormaModel                                          *)
(***************************************************************************)

\* parse_date returns (it raises ValueError otherwise)
ParseDateOk(v) ==
    \/ v.k = "datetime"
    \/ v.k = "str" /\ StrptimeOk(v.s)

\* what parse_date returns: a datetime unchanged, the date of a string
ParseDateVal(v) == IF v.k = "datetime" THEN v ELSE PyDate(StrptimeVal(v.s))

\* parse_percentage without its rstrip('%'): a text that ends in '%' is no
\* number to it
ParsePercentageOkNoPercentSign(v) ==
    \/ IsNumeric(v)
    \/ v.k = "str" /\ FloatOk(Strip(v.s))

\* parse_percentage returns (it raises ValueError otherwise)
ParsePercentageOk(v) ==
    \/ IsNumeric(v)
    \/ v.k = "str" /\ FloatOk(RStripPercent(Strip(v.s)))

\* what parse_percentage returns: the value divided by 100
ParsePercentageVal(v) ==
    IF IsNumeric(v) THEN Div(NumVal(v), FromInt(100))
    ELSE Div(FloatVal(RStripPercent(Strip(v.s))), FromInt(100))

\* parse_number returns (it raises ValueError otherwise)
ParseNumberOk(v) ==
    \/ IsNumeric(v)
    \/ v.k = "str" /\ FloatOk(ReSubNonNumeric(v.s))

\* what parse_number returns
ParseNumberVal(v) ==
    IF IsNumeric(v) THEN NumVal(v) ELSE FloatVal(ReSubNonNumeric(v.s))

(***************************************************************************)
(* validate_inputs: it works on the caller's map and replaces each value   *)
(* by its parsed form as it goes, so a failure leaves the map half parsed  *)
(***************************************************************************)

required_fields ==
    << "rmHireDate", "firstProductionDate", "annualProduction", "loanVsLinePercentage",
       "goingOnYields", "lineUtilizationPercentage", "originationFeePercentage",
       "unusedCommitmentFeePercentage", "salary", "annualMeritIncrease",
       "discretionaryExpenses", "deferredCostsPerLoan", "averageLifeLoans",
       "averageLifeLines", "prepayPercentageOfBalance", "incentiveCompensationPercentage",
       "avgLoanExposureAtOrigination" >>

date_fields == << "rmHireDate", "firstProductionDate" >>

percentage_fields ==
    << "loanVsLinePercentage", "lineUtilizationPercentage", "originationFeePercentage",
       "unusedCommitmentFeePercentage", "annualMeritIncrease", "prepayPercentageOfBalance",
       "incentiveCompensationPercentage" >>

numeric_fields ==
    << "salary", "discretionaryExpenses", "deferredCostsPerLoan", "averageLifeLoans",
       "averageLifeLines", "avgLoanExposureAtOrigination" >>

Range(seq) == {seq[k] : k \in 1..Len(seq)}

\* the first required field the map lacks, "" if it has them all
RECURSIVE FirstMissing(_, _)
FirstMissing(inp, k) ==
    IF k > Len(required_fields) THEN ""
    ELSE IF required_fields[k] \notin DOMAIN inp THEN required_fields[k]
    ELSE FirstMissing(inp, k + 1)

\* the loop over date_fields from its k-th field on
RECURSIVE ValidateDates(_, _)
ValidateDates(inp, k) ==
    IF k > Len(date_fields) THEN [inputs |-> inp, err |-> NoError]
    ELSE LET f == date_fields[k]
         IN  IF ParseDateOk(inp[f])
             THEN ValidateDates([inp EXCEPT ![f] = ParseDateVal(inp[f])], k + 1)
             ELSE [inputs |-> inp, err |-> Exc("ValueError", "Invalid date format for", f)]

\* the comparison of the two dates with its raise left out
DateOrderCheckUnordered(inp) ==
    IF inp["rmHireDate"].k # inp["firstProductionDate"].k
    THEN Exc("TypeError", "can't compare datetime.datetime to datetime.date", "")
    ELSE NoError

\* firstProductionDate < rmHireDate of the parsed dates: a date and a
\* datetime do not compare (TypeError)
DateOrderCheck(inp) ==
    LET h == inp["rmHireDate"]
        f == inp["firstProductionDate"]
    IN  IF h.k # f.k
        THEN Exc("TypeError", "can't compare datetime.datetime to datetime.date", "")
        ELSE IF f.n < h.n
        THEN Exc("ValueError", "First Production Date cannot be earlier than RM Hire Date", "")
        ELSE NoError

\* the loop over percentage_fields from its k-th field on
RECURSIVE ValidatePercentages(_, _)
ValidatePercentages(inp, k) ==
    IF k > Len(percentage_fields) THEN [inputs |-> inp, err |-> NoError]
    ELSE LET f == percentage_fields[k]
         IN  IF ParsePercentageOk(inp[f])
             THEN ValidatePercentages([inp EXCEPT ![f] = PyFloat(ParsePercentageVal(inp[f]))], k + 1)
             ELSE [inputs |-> inp, err |-> Exc("ValueError", "Invalid percentage value for", f)]

\* the loop over numeric_fields from its k-th field on
RECURSIVE ValidateNumerics(_, _)
ValidateNumerics(inp, k) ==
    IF k > Len(numeric_fields) THEN [inputs |-> inp, err |-> NoError]
    ELSE LET f == numeric_fields[k]
         IN  IF ParseNumberOk(inp[f])
             THEN ValidateNumerics([inp EXCEPT ![f] = PyFloat(ParseNumberVal(inp[f]))], k + 1)
             ELSE [inputs |-> inp, err |-> Exc("ValueError", "Invalid numeric value for", f)]

\* one element of annualProduction parses: both keys are there (KeyError
\* otherwise) and parse_number takes both values (ValueError otherwise)
ProductionYearOk(year) ==
    /\ "loans" \in DOMAIN year /\ ParseNumberOk(year["loans"])
    /\ "deposits" \in DOMAIN year /\ ParseNumberOk(year["deposits"])

ProductionYearVal(year) ==
    [loans |-> PyFloat(ParseNumberVal(year["loans"])),
     deposits |-> PyFloat(ParseNumberVal(year["deposits"]))]

\* one element of goingOnYields parses
YieldYearOk(year) ==
    /\ "loans" \in DOMAIN year /\ ParsePercentageOk(year["loans"])
    /\ "lines" \in DOMAIN year /\ ParsePercentageOk(year["lines"])
    /\ "deposits" \in DOMAIN year /\ ParsePercentageOk(year["deposits"])

YieldYearVal(year) ==
    [loans |-> PyFloat(ParsePercentageVal(year["loans"])),
     lines |-> PyFloat(ParsePercentageVal(year["lines"])),
     deposits |-> PyFloat(ParsePercentageVal(year["deposits"]))]

\* the list comprehension over goingOnYields (lines 109-116), on the map
\* the comprehension over annualProduction has left
ValidateYields(inp) ==
    LET gy == inp["goingOnYields"]
    IN  IF gy.k # "list"
        THEN [inputs |-> inp, err |-> Exc("TypeError", "object is not iterable", "")]
        ELSE IF \E j \in 1..Len(gy.items) : ~YieldYearOk(gy.items[j])
        THEN [inputs |-> inp,
              err |-> Exc("ValueError", "Invalid structure in annualProduction or goingOnYields", "")]
        ELSE [inputs |-> [inp EXCEPT !["goingOnYields"] =
                            PyList([j \in 1..Len(gy.items) |-> YieldYearVal(gy.items[j])])],
              err |-> NoError]

\* the two list comprehensions over the nested structures: every element
\* of the sequence is parsed, whatever their number; a value that is no
\* sequence raises TypeError, which the except clause does not catch
ValidateNested(inp) ==
    LET ap == inp["annualProduction"]
    IN  IF ap.k # "list"
        THEN [inputs |-> inp, err |-> Exc("TypeError", "object is not iterable", "")]
        ELSE IF \E j \in 1..Len(ap.items) : ~ProductionYearOk(ap.items[j])
        THEN [inputs |-> inp,
              err |-> Exc("ValueError", "Invalid structure in annualProduction or goingOnYields", "")]
        ELSE ValidateYields([inp EXCEPT !["annualProduction"] =
                 PyList([j \in 1..Len(ap.items) |-> ProductionYearVal(ap.items[j])])])

\* validate_inputs from the nested structures on, given what the loop over
\* the percentages has left
ValidateFromNested(n) == IF n.err # NoError THEN n ELSE ValidateNumerics(n.inputs, 1)

\* validate_inputs from the percentages on
ValidateFromPercentages(p) ==
    IF p.err # NoError THEN p ELSE ValidateFromNested(ValidateNested(p.inputs))

\* validate_inputs from the comparison of the two dates on (lines 82-84)
ValidateFromOrder(inp, e) ==
    IF e # NoError THEN [inputs |-> inp, err |-> e]
    ELSE ValidateFromPercentages(ValidatePercentages(inp, 1))

\* validate_inputs from the loop over the dates on
ValidateFromDates(d) ==
    IF d.err # NoError THEN d ELSE ValidateFromOrder(d.inputs, DateOrderCheck(d.inputs))

\* validate_inputs as a whole: the map it leaves behind and the exception
\* it raises (NoError when it returns)
validate_inputs(inp) ==
    IF FirstMissing(inp, 1) # ""
    THEN [inputs |-> inp, err |-> Exc("ValueError", "Missing required input", FirstMissing(inp, 1))]
    ELSE ValidateFromDates(ValidateDates(inp, 1))

(***************************************************************************)
(* The state of one call of calculate_pro_forma(inputs) and of the route   *)
(***************************************************************************)

VARIABLES
    inputs,                  \* the caller's map (self.inputs is the same object)
    pc,                      \* where the call stands
    rm_hire_date,            \* self.rm_hire_date
    first_production_date,   \* self.first_production_date
    end_date,                \* self.end_date
    dates,                   \* self.dates
    yield_curves,            \* self.yield_curves: key date -> tenor -> rate
    incentive_compensation_percentage,
    direct_cost_per_loan,
    indirect_cost_per_loan,  \* the raw value of the map, or the int 0
    df,                      \* the monthly DataFrame, one record per row
    i,                       \* the index of the loop over self.dates
    annual_summary,
    cumulative_payback,
    results,                 \* what calculate_pro_forma returns
    total_metrics,
    error,                   \* the exception calculate_pro_forma raises
    response,                \* what RMProFormaCalculation.post answers
    given                    \* the map as the caller built it (kept to state properties)

vars ==
    << inputs, pc, rm_hire_date, first_production_date, end_date, dates, yield_curves,
       incentive_compensation_percentage, direct_cost_per_loan, indirect_cost_per_loan,
       df, i, annual_summary, cumulative_payback, results, total_metrics, error, response,
       given >>

\* "not set yet" for the attributes and results (Python None for the payback)
None == [k |-> "none"]

\* the float of a validated scalar field
In(f) == inputs[f].n

\* self.inputs['annualProduction'][year][key], year counted from 0
AnnualProduction(year, key) == inputs["annualProduction"].items[year + 1][key].n

\* self.inputs['goingOnYields'][year][key], year counted from 0
GoingOnYields(year, key) == inputs["goingOnYields"].items[year + 1][key].n

(***************************************************************************)
(* __init__ after validate_inputs                                          *)
(***************************************************************************)

\* the years of the projection: relativedelta(years=5)
HorizonYears == 5

\* the first days of the months from the month of start on, the month of
\* start included even when start is a later day of it
date_range_from_month_of_start(start, end) ==
    LET first == MonthIndex(start)
        last == MonthIndex(end)
    IN  [j \in 1..(IF last >= first THEN last - first + 1 ELSE 0) |-> MonthStart(first + j - 1)]

\* pd.date_range(start, end, freq='MS'): every first day of a month d with
\* start <= d <= end, both ends included
date_range(start, end) ==
    LET first == IF DayOf(start) = 1 THEN MonthIndex(start) ELSE MonthIndex(start) + 1
        last == MonthIndex(end)
    IN  [j \in 1..(IF last >= first THEN last - first + 1 ELSE 0) |-> MonthStart(first + j - 1)]

tenors == << 2500, 5000, FromInt(1), FromInt(2), FromInt(3), FromInt(5), FromInt(10), FromInt(30) >>

base_rates == << 100, 150, 200, 250, 300, 350, 400, 450 >>

\* the number of curves _initialize_yield_curves builds: range(5)
CurveYears == 5

\* the rates of the curve of production year `year`
year_rates(year) ==
    [j \in 1..Len(base_rates) |-> base_rates[j] + Div(GoingOnYields(year, "loans"), FromInt(100))]

\* YieldCurve(tenors, rates): the interpolation table
YieldCurve(ts, rates) == [t \in Range(ts) |-> rates[CHOOSE j \in 1..Len(ts) : ts[j] = t]]

\* _initialize_yield_curves: one curve per year, keyed by its first day
_initialize_yield_curves ==
    [d \in {AddYears(first_production_date, y) : y \in 0..(CurveYears - 1)} |->
        YieldCurve(tenors, year_rates(CHOOSE y \in 0..(CurveYears - 1) :
                                          AddYears(first_production_date, y) = d))]

\* YieldCurve.get_rate: the interpolant passes through the points of the
\* table; between two points of the table (and outside it) the model takes
\* the straight line through the nearest two points
get_rate(curve, tenor) ==
    IF tenor \in DOMAIN curve THEN curve[tenor]
    ELSE LET lo == IF \E j \in 1..Len(tenors) : tenors[j] < tenor
                   THEN Min(Len(tenors) - 1, CHOOSE j \in 1..Len(tenors) :
                               /\ tenors[j] < tenor
                               /\ \A l \in 1..Len(tenors) : tenors[l] < tenor => l <= j)
                   ELSE 1
             t0 == tenors[lo]
             t1 == tenors[lo + 1]
         IN  curve[t0] + Div(Mul(curve[t1] - curve[t0], tenor - t0), t1 - t0)

(***************************************************************************)
(* The monthly schedule                                                    *)
(***************************************************************************)

Columns ==
    { "loan_balance", "line_balance", "deposit_balance",
      "interest_income_loans", "interest_income_lines",
      "interest_expense", "non_interest_income",
      "non_interest_expense", "provision_expense", "net_income",
      "cumulative_income", "cumulative_expenses", "cumulative_profit",
      "fas91_balance", "efficiency_ratio",
      "origination_fees", "unused_commitment_fees",
      "salary_expense", "incentive_compensation_expense", "benefits_expense",
      "discretionary_expense",
      "total_assets", "total_liabilities", "total_equity",
      "loan_monthly_production", "loan_prepayment_amount", "loan_scheduled_amortization",
      "line_monthly_production", "line_prepayment_amount", "line_utilization_production",
      "deferred_origination_fees", "deferred_costs", "deferred_cost_amortization",
      "indirect_costs" }

\* pd.DataFrame(index=self.dates, columns=[...]) and df['fas91_balance'] = 0.0
NewFrame(ds) ==
    [j \in 1..Len(ds) |-> [c \in Columns |-> IF c = "fas91_balance" THEN 0 ELSE NaN]]

\* df[c] = cells[c]: the cells written to every row of the frame
SetCellsInColumn(frame, idx, cells) == [j \in DOMAIN frame |-> cells @@ frame[j]]

\* df.loc[date, c] = cells[c] for the row of index i (counted from 0)
SetCells(frame, idx, cells) == [frame EXCEPT ![idx + 1] = cells @@ @]

\* df.index[i]
DateAt(idx) == dates[idx + 1]

\* months_since_production of the row of index idx
MonthsSinceProduction(idx) ==
    (YearOf(DateAt(idx)) - YearOf(first_production_date)) * 12
        + (MonthOf(DateAt(idx)) - MonthOf(first_production_date))

\* the clamp of the production-year index: min(.. // 12, 4)
LastYearIndex == 4

\* the production-year index without the clamp
ProductionYearUnclamped(idx) == MonthsSinceProduction(idx) \div 12

\* year = min(months_since_production // 12, 4)
ProductionYear(idx) == Min(MonthsSinceProduction(idx) \div 12, LastYearIndex)

\* i == 0 or df.index[i-1] < self.first_production_date
IsFirstProductionRow(idx) == idx = 0 \/ DateAt(idx - 1) < first_production_date

\* _calculate_salary_expense
_calculate_salary_expense(months_since_hire) ==
    LET years_since_hire == months_since_hire \div 12
        base_salary == Mul(In("salary"), Pow(FromInt(1) + In("annualMeritIncrease"), years_since_hire))
    IN  Div(base_salary, FromInt(12))

\* the share of the salary booked as benefits
BenefitsRate == 2800

\* the expenses of a month if they accrued only after the month of the hire
ExpenseCellsAfterHire(idx) ==
    LET date == DateAt(idx)
        months_since_hire == (YearOf(date) - YearOf(rm_hire_date)) * 12
                                 + (MonthOf(date) - MonthOf(rm_hire_date))
        salary == _calculate_salary_expense(months_since_hire)
    IN  IF date > rm_hire_date
        THEN [salary_expense |-> salary,
              benefits_expense |-> Mul(salary, BenefitsRate),
              incentive_compensation_expense |-> Mul(salary, incentive_compensation_percentage),
              discretionary_expense |-> Div(In("discretionaryExpenses"), FromInt(12))]
        ELSE [salary_expense |-> 0, benefits_expense |-> 0,
              incentive_compensation_expense |-> 0, discretionary_expense |-> 0]

\* lines 196-206: the expenses of a month on or after the hire date
ExpenseCells(idx) ==
    LET date == DateAt(idx)
        months_since_hire == (YearOf(date) - YearOf(rm_hire_date)) * 12
                                 + (MonthOf(date) - MonthOf(rm_hire_date))
        salary == _calculate_salary_expense(months_since_hire)
    IN  IF date >= rm_hire_date
        THEN [salary_expense |-> salary,
              benefits_expense |-> Mul(salary, BenefitsRate),
              incentive_compensation_expense |-> Mul(salary, incentive_compensation_percentage),
              discretionary_expense |-> Div(In("discretionaryExpenses"), FromInt(12))]
        ELSE [salary_expense |-> 0, benefits_expense |-> 0,
              incentive_compensation_expense |-> 0, discretionary_expense |-> 0]

\* annualProduction[year]['loans'] * loanVsLinePercentage / (100 - loanVsLinePercentage) / 12.0
LineMonthlyProduction(year) ==
    Div(Div(Mul(AnnualProduction(year, "loans"), In("loanVsLinePercentage")),
            FromInt(100) - In("loanVsLinePercentage")),
        FromInt(12))

\* _calculate_loan_balance with the scheduled amortization reported but not
\* taken off the balance
_calculate_loan_balance_without_amortization(idx, frame) ==
    LET year == ProductionYear(idx)
        monthly_production == Div(AnnualProduction(year, "loans"), FromInt(12))
        prepayment_rate == Div(In("prepayPercentageOfBalance"), FromInt(12))
        previous_balance == frame[idx]["loan_balance"]
        prepayment_amount == Mul(previous_balance, prepayment_rate)
        scheduled_amortization == Div(previous_balance, Mul(In("averageLifeLoans"), FromInt(12)))
    IN  IF DateAt(idx) < first_production_date
        THEN [monthly_production |-> 0, prepayment_amount |-> 0,
              scheduled_amortization |-> 0, new_balance |-> 0]
        ELSE IF IsFirstProductionRow(idx)
        THEN [monthly_production |-> monthly_production, prepayment_amount |-> 0,
              scheduled_amortization |-> 0, new_balance |-> monthly_production]
        ELSE [monthly_production |-> monthly_production,
              prepayment_amount |-> prepayment_amount,
              scheduled_amortization |-> scheduled_amortization,
              new_balance |-> previous_balance - prepayment_amount + monthly_production]

\* _calculate_loan_balance
_calculate_loan_balance(idx, frame) ==
    LET year == ProductionYear(idx)
        monthly_production == Div(AnnualProduction(year, "loans"), FromInt(12))
        prepayment_rate == Div(In("prepayPercentageOfBalance"), FromInt(12))
        previous_balance == frame[idx]["loan_balance"]
        prepayment_amount == Mul(previous_balance, prepayment_rate)
        scheduled_amortization == Div(previous_balance, Mul(In("averageLifeLoans"), FromInt(12)))
    IN  IF DateAt(idx) < first_production_date
        THEN [monthly_production |-> 0, prepayment_amount |-> 0,
              scheduled_amortization |-> 0, new_balance |-> 0]
        ELSE IF IsFirstProductionRow(idx)
        THEN [monthly_production |-> monthly_production, prepayment_amount |-> 0,
              scheduled_amortization |-> 0, new_balance |-> monthly_production]
        ELSE [monthly_production |-> monthly_production,
              prepayment_amount |-> prepayment_amount,
              scheduled_amortization |-> scheduled_amortization,
              new_balance |-> previous_balance - prepayment_amount - scheduled_amortization
                                  + monthly_production]

\* _calculate_line_balance
_calculate_line_balance(idx, frame) ==
    LET year == ProductionYear(idx)
        monthly_production == LineMonthlyProduction(year)
        utilization_rate == In("lineUtilizationPercentage")
        prepayment_rate == Div(In("prepayPercentageOfBalance"), FromInt(12))
        utilization_production == Mul(monthly_production, utilization_rate)
        previous_balance == frame[idx]["line_balance"]
        prepayment_amount == Mul(previous_balance, prepayment_rate)
    IN  IF DateAt(idx) < first_production_date
        THEN [monthly_production |-> 0, prepayment_amount |-> 0,
              utilization_production |-> 0, new_balance |-> 0]
        ELSE IF IsFirstProductionRow(idx)
        THEN [monthly_production |-> monthly_production, prepayment_amount |-> 0,
              utilization_production |-> utilization_production,
              new_balance |-> utilization_production]
        ELSE [monthly_production |-> monthly_production,
              prepayment_amount |-> prepayment_amount,
              utilization_production |-> utilization_production,
              new_balance |-> previous_balance - prepayment_amount + utilization_production]

\* _calculate_deposit_balance
_calculate_deposit_balance(idx, frame) ==
    LET year == ProductionYear(idx)
        monthly_production == Div(AnnualProduction(year, "deposits"), FromInt(12))
    IN  IF DateAt(idx) < first_production_date THEN 0
        ELSE IF IsFirstProductionRow(idx) THEN monthly_production
        ELSE frame[idx]["deposit_balance"] + monthly_production

\* the earliest key that is <= date, in place of the latest
yield_curve_date_earliest(date) ==
    CHOOSE d \in DOMAIN yield_curves :
        /\ d <= date
        /\ \A e \in DOMAIN yield_curves : e <= date => d <= e

\* max(d for d in self.yield_curves.keys() if d <= date)
yield_curve_date(date) ==
    CHOOSE d \in DOMAIN yield_curves :
        /\ d <= date
        /\ \A e \in DOMAIN yield_curves : e <= date => e <= d

\* _calculate_interest_income_loans
_calculate_interest_income_loans(idx, frame) ==
    LET date == DateAt(idx)
        loan_yield == Div(get_rate(yield_curves[yield_curve_date(date)], In("averageLifeLoans")),
                          FromInt(12))
    IN  IF date < first_production_date THEN 0
        ELSE Mul(frame[idx + 1]["loan_balance"], loan_yield)

\* _calculate_interest_income_lines with the rate of the curve shifted by
\* goingOnYields[year]['lines']
_calculate_interest_income_lines_at_line_yield(idx, frame) ==
    LET date == DateAt(idx)
        line_yield == Div(get_rate(yield_curves[yield_curve_date(date)], In("averageLifeLines"))
                              + GoingOnYields(ProductionYear(idx), "lines"),
                          FromInt(12))
    IN  IF date < first_production_date THEN 0
        ELSE Mul(frame[idx + 1]["line_balance"], line_yield)

\* _calculate_interest_income_lines
_calculate_interest_income_lines(idx, frame) ==
    LET date == DateAt(idx)
        line_yield == Div(get_rate(yield_curves[yield_curve_date(date)], In("averageLifeLines")),
                          FromInt(12))
    IN  IF date < first_production_date THEN 0
        ELSE Mul(frame[idx + 1]["line_balance"], line_yield)

\* _calculate_interest_expense
_calculate_interest_expense(idx, frame) ==
    LET year == ProductionYear(idx)
        deposit_yield == Div(Div(GoingOnYields(year, "deposits"), FromInt(100)), FromInt(12))
    IN  IF DateAt(idx) < first_production_date THEN 0
        ELSE Mul(frame[idx + 1]["deposit_balance"], deposit_yield)

\* _calculate_deferred_fees_and_costs with the amortization of the month
\* reported but not taken off the deferred balances
_calculate_deferred_fees_and_costs_unamortized(idx, frame) ==
    LET year == ProductionYear(idx)
        monthly_loan_production == Div(AnnualProduction(year, "loans"), FromInt(12))
        monthly_line_production == LineMonthlyProduction(year)
        total_production == monthly_loan_production + monthly_line_production
        new_origination_fees == Mul(total_production, In("originationFeePercentage"))
        loans_made == Div(total_production, In("avgLoanExposureAtOrigination"))
        new_direct_costs == Mul(loans_made, direct_cost_per_loan.n)
        indirect_costs == Mul(loans_made, NumVal(indirect_cost_per_loan))
        first == IsFirstProductionRow(idx)
        previous_deferred_fees == IF first THEN 0 ELSE frame[idx]["deferred_origination_fees"]
        previous_deferred_costs == IF first THEN 0 ELSE frame[idx]["deferred_costs"]
        previous_loan_balance ==
            IF first THEN 0 ELSE frame[idx]["loan_balance"] + frame[idx]["line_balance"]
        average_life == Mul(In("averageLifeLoans"), FromInt(12))
        effective_interest_rate ==
            Div(Div(new_origination_fees - new_direct_costs, total_production), average_life)
        regular_fee_amortization == Mul(previous_deferred_fees, effective_interest_rate)
        regular_cost_amortization == Mul(previous_deferred_costs, effective_interest_rate)
        prepayment_rate == Div(In("prepayPercentageOfBalance"), FromInt(12))
        prepayment_amount == Mul(previous_loan_balance, prepayment_rate)
        prepayment_share == Div(prepayment_amount, previous_loan_balance)
        prepayment_fee_amortization ==
            IF previous_loan_balance > 0 THEN Mul(prepayment_share, previous_deferred_fees) ELSE 0
        prepayment_cost_amortization ==
            IF previous_loan_balance > 0 THEN Mul(prepayment_share, previous_deferred_costs) ELSE 0
        total_fee_amortization == regular_fee_amortization + prepayment_fee_amortization
        total_cost_amortization == regular_cost_amortization + prepayment_cost_amortization
    IN  IF DateAt(idx) < first_production_date
        THEN [deferred_origination_fees |-> 0, deferred_costs |-> 0, origination_fees |-> 0,
              deferred_cost_amortization |-> 0, indirect_costs |-> 0]
        ELSE [deferred_origination_fees |->
                  previous_deferred_fees + new_origination_fees,
              deferred_costs |->
                  previous_deferred_costs + new_direct_costs,
              origination_fees |-> total_fee_amortization,
              deferred_cost_amortization |-> total_cost_amortization,
              indirect_costs |-> indirect_costs]

\* _calculate_deferred_fees_and_costs: the new deferred balances, the
\* amortization of the month and the indirect costs
_calculate_deferred_fees_and_costs(idx, frame) ==
    LET year == ProductionYear(idx)
        monthly_loan_production == Div(AnnualProduction(year, "loans"), FromInt(12))
        monthly_line_production == LineMonthlyProduction(year)
        total_production == monthly_loan_production + monthly_line_production
        new_origination_fees == Mul(total_production, In("originationFeePercentage"))
        loans_made == Div(total_production, In("avgLoanExposureAtOrigination"))
        new_direct_costs == Mul(loans_made, direct_cost_per_loan.n)
        indirect_costs == Mul(loans_made, NumVal(indirect_cost_per_loan))
        first == IsFirstProductionRow(idx)
        previous_deferred_fees == IF first THEN 0 ELSE frame[idx]["deferred_origination_fees"]
        previous_deferred_costs == IF first THEN 0 ELSE frame[idx]["deferred_costs"]
        previous_loan_balance ==
            IF first THEN 0 ELSE frame[idx]["loan_balance"] + frame[idx]["line_balance"]
        average_life == Mul(In("averageLifeLoans"), FromInt(12))
        effective_interest_rate ==
            Div(Div(new_origination_fees - new_direct_costs, total_production), average_life)
        regular_fee_amortization == Mul(previous_deferred_fees, effective_interest_rate)
        regular_cost_amortization == Mul(previous_deferred_costs, effective_interest_rate)
        prepayment_rate == Div(In("prepayPercentageOfBalance"), FromInt(12))
        prepayment_amount == Mul(previous_loan_balance, prepayment_rate)
        prepayment_share == Div(prepayment_amount, previous_loan_balance)
        prepayment_fee_amortization ==
            IF previous_loan_balance > 0 THEN Mul(prepayment_share, previous_deferred_fees) ELSE 0
        prepayment_cost_amortization ==
            IF previous_loan_balance > 0 THEN Mul(prepayment_share, previous_deferred_costs) ELSE 0
        total_fee_amortization == regular_fee_amortization + prepayment_fee_amortization
        total_cost_amortization == regular_cost_amortization + prepayment_cost_amortization
    IN  IF DateAt(idx) < first_production_date
        THEN [deferred_origination_fees |-> 0, deferred_costs |-> 0, origination_fees |-> 0,
              deferred_cost_amortization |-> 0, indirect_costs |-> 0]
        ELSE [deferred_origination_fees |->
                  previous_deferred_fees + new_origination_fees - total_fee_amortization,
              deferred_costs |->
                  previous_deferred_costs + new_direct_costs - total_cost_amortization,
              origination_fees |-> total_fee_amortization,
              deferred_cost_amortization |-> total_cost_amortization,
              indirect_costs |-> indirect_costs]

\* _calculate_unused_commitment_fees
_calculate_unused_commitment_fees(idx, frame) ==
    LET year == ProductionYear(idx)
        unused_balance ==
            Mul(LineMonthlyProduction(year), FromInt(1) - In("lineUtilizationPercentage"))
    IN  IF DateAt(idx) < first_production_date THEN 0
        ELSE Mul(unused_balance, In("unusedCommitmentFeePercentage"))

\* provision_rate = 0.01
ProvisionRate == 100

\* _calculate_provision_expense
_calculate_provision_expense(idx, frame) ==
    LET year == ProductionYear(idx)
        monthly_loan_production == Div(AnnualProduction(year, "loans"), FromInt(12))
    IN  IF DateAt(idx) < first_production_date THEN 0
        ELSE Mul(monthly_loan_production, ProvisionRate)

\* _calculate_efficiency_ratio
_calculate_efficiency_ratio(row) ==
    LET total_revenue == row["interest_income_loans"] + row["interest_income_lines"]
                             + row["origination_fees"] + row["unused_commitment_fees"]
                             - row["interest_expense"]
    IN  IF total_revenue <= 0 THEN Inf ELSE Div(row["non_interest_expense"], total_revenue)

\* lines 210-223: the balances and flows of loans and lines
LoanLineCells(idx, frame, loan_details, line_details) ==
    SetCells(frame, idx,
        [loan_balance |-> loan_details.new_balance,
         loan_monthly_production |-> loan_details.monthly_production,
         loan_prepayment_amount |-> loan_details.prepayment_amount,
         loan_scheduled_amortization |-> loan_details.scheduled_amortization,
         line_balance |-> line_details.new_balance,
         line_monthly_production |-> line_details.monthly_production,
         line_prepayment_amount |-> line_details.prepayment_amount,
         line_utilization_production |-> line_details.utilization_production])

BalanceCells(idx, frame) ==
    LoanLineCells(idx, frame, _calculate_loan_balance(idx, frame),
                  _calculate_line_balance(idx, frame))

\* line 225
DepositCells(idx, frame) ==
    SetCells(frame, idx, [deposit_balance |-> _calculate_deposit_balance(idx, frame)])

\* lines 227-229
InterestCells(idx, frame) ==
    SetCells(frame, idx,
        [interest_income_loans |-> _calculate_interest_income_loans(idx, frame),
         interest_income_lines |-> _calculate_interest_income_lines(idx, frame),
         interest_expense |-> _calculate_interest_expense(idx, frame)])

\* lines 231-233
DeferredCells(idx, frame) ==
    SetCells(frame, idx, _calculate_deferred_fees_and_costs(idx, frame))

\* line 234
UnusedFeeCells(idx, frame) ==
    SetCells(frame, idx,
        [unused_commitment_fees |-> _calculate_unused_commitment_fees(idx, frame)])

\* line 235
NonInterestIncomeCells(idx, frame) ==
    SetCells(frame, idx,
        [non_interest_income |->
             frame[idx + 1]["origination_fees"] + frame[idx + 1]["unused_commitment_fees"]])

\* line 237
ProvisionCells(idx, frame) ==
    SetCells(frame, idx, [provision_expense |-> _calculate_provision_expense(idx, frame)])

\* lines 210-237: the cells of a month on or after the first production
\* date, each statement working on the frame the one before has left
ProductionCells(idx, frame) ==
    ProvisionCells(idx, NonInterestIncomeCells(idx, UnusedFeeCells(idx, DeferredCells(idx,
        InterestCells(idx, DepositCells(idx, BalanceCells(idx, frame)))))))

\* the columns the branch would leave alone if its list of columns to zero
\* lacked unused_commitment_fees
KeptBeforeProductionAndFees ==
    {"salary_expense", "benefits_expense", "discretionary_expense", "fas91_balance",
     "unused_commitment_fees"}

\* the columns the branch of a month before first production leaves alone
KeptBeforeProduction ==
    {"salary_expense", "benefits_expense", "discretionary_expense", "fas91_balance"}

\* lines 239-242: every other column of the row is set to 0.0
PreProductionCells(idx, frame) ==
    SetCells(frame, idx, [c \in Columns \ KeptBeforeProduction |-> 0])

\* lines 244-251: non_interest_expense of the row
NonInterestExpense(row) ==
    row["salary_expense"] + row["benefits_expense"]
        + row["incentive_compensation_expense"] + row["discretionary_expense"]
        + row["deferred_cost_amortization"] + row["indirect_costs"]

\* lines 253-260: net_income of the row
NetIncome(row) ==
    row["interest_income_loans"] + row["interest_income_lines"]
        + row["non_interest_income"] - row["interest_expense"]
        - row["non_interest_expense"] - row["provision_expense"]

\* lines 262, 266: the income the cumulative column adds
Income(row) ==
    row["interest_income_loans"] + row["interest_income_lines"] + row["non_interest_income"]

\* the expenses of the row without the provision expense
ExpensesWithoutProvision(row) == row["interest_expense"] + row["non_interest_expense"]

\* lines 263, 267: the expenses the cumulative column adds
Expenses(row) ==
    row["interest_expense"] + row["non_interest_expense"] + row["provision_expense"]

\* lines 244-251
NonInterestExpenseCells(idx, frame) ==
    SetCells(frame, idx, [non_interest_expense |-> NonInterestExpense(frame[idx + 1])])

\* lines 253-260
NetIncomeCells(idx, frame) ==
    SetCells(frame, idx, [net_income |-> NetIncome(frame[idx + 1])])

\* lines 262-267
CumulativeCells(idx, frame) ==
    SetCells(frame, idx,
        [cumulative_income |->
             IF idx = 0 THEN Income(frame[idx + 1])
             ELSE frame[idx]["cumulative_income"] + Income(frame[idx + 1]),
         cumulative_expenses |->
             IF idx = 0 THEN Expenses(frame[idx + 1])
             ELSE frame[idx]["cumulative_expenses"] + Expenses(frame[idx + 1])])

\* line 269
CumulativeProfitCells(idx, frame) ==
    SetCells(frame, idx,
        [cumulative_profit |->
             frame[idx + 1]["cumulative_income"] - frame[idx + 1]["cumulative_expenses"]])

\* line 271
EfficiencyCells(idx, frame) ==
    SetCells(frame, idx, [efficiency_ratio |-> _calculate_efficiency_ratio(frame[idx + 1])])

\* lines 273-280
TotalAssets(row) ==
    row["loan_balance"] + row["line_balance"] + row["deferred_costs"]
        - row["deferred_origination_fees"]

BalanceSheetCells(idx, frame) ==
    SetCells(frame, idx,
        [total_assets |-> TotalAssets(frame[idx + 1]),
         total_liabilities |-> frame[idx + 1]["deposit_balance"],
         total_equity |-> TotalAssets(frame[idx + 1]) - frame[idx + 1]["deposit_balance"]])

\* lines 244-280: the totals of the row
TotalCells(idx, frame) ==
    BalanceSheetCells(idx, EfficiencyCells(idx, CumulativeProfitCells(idx,
        CumulativeCells(idx, NetIncomeCells(idx, NonInterestExpenseCells(idx, frame))))))

\* lines 208-242: the branch on the first production date
BranchCells(idx, frame) ==
    IF DateAt(idx) >= first_production_date
    THEN ProductionCells(idx, frame)
    ELSE PreProductionCells(idx, frame)

\* the body of the loop of _generate_monthly_schedule for the row of index idx
MonthRow(idx, frame) ==
    TotalCells(idx, BranchCells(idx, SetCells(frame, idx, ExpenseCells(idx))))

\* the exception the body of the loop raises for the row of index idx, the
\* first one in the order of execution; NoError when it raises none
MonthError(idx) ==
    LET year == ProductionYear(idx)
        zde == Exc("ZeroDivisionError", "float division by zero", "")
    IN  IF DateAt(idx) < first_production_date THEN NoError
        ELSE IF Len(inputs["annualProduction"].items) < year + 1
        THEN Exc("IndexError", "list index out of range", "")
        ELSE IF ~IsFirstProductionRow(idx) /\ Mul(In("averageLifeLoans"), FromInt(12)) = 0
        THEN zde
        ELSE IF FromInt(100) - In("loanVsLinePercentage") = 0
        THEN zde
        ELSE IF ~\E d \in DOMAIN yield_curves : d <= DateAt(idx)
        THEN Exc("ValueError", "max() arg is an empty sequence", "")
        ELSE IF Len(inputs["goingOnYields"].items) < year + 1
        THEN Exc("IndexError", "list index out of range", "")
        ELSE IF In("avgLoanExposureAtOrigination") = 0
        THEN zde
        ELSE IF ~IsNumeric(indirect_cost_per_loan)
        THEN Exc("TypeError", "can't multiply sequence by non-int of type 'float'", "")
        ELSE IF Div(AnnualProduction(year, "loans"), FromInt(12)) + LineMonthlyProduction(year) = 0
        THEN zde
        ELSE IF Mul(In("averageLifeLoans"), FromInt(12)) = 0
        THEN zde
        ELSE NoError

(***************************************************************************)
(* calculate_pro_forma after the monthly schedule                          *)
(***************************************************************************)

\* the sum of column c over the rows of frame dated in year y; a float
\* sum that meets inf is inf
RECURSIVE SumColumn(_, _, _, _)
SumColumn(frame, c, y, j) ==
    IF j = 0 THEN 0
    ELSE LET rest == SumColumn(frame, c, y, j - 1)
             cell == frame[j][c]
         IN  IF YearOf(dates[j]) # y THEN rest
             ELSE IF rest = Inf \/ cell = Inf THEN Inf
             ELSE rest + cell

\* _generate_annual_summary: monthly_schedule.resample('A').sum(), one row
\* per calendar year, every column summed
_generate_annual_summary(monthly_schedule) ==
    [y \in {YearOf(dates[j]) : j \in 1..Len(dates)} |->
        [c \in Columns |-> SumColumn(monthly_schedule, c, y, Len(dates))]]

\* monthly_schedule['net_income'].cumsum() at row j (counted from 1)
RECURSIVE cumulative_net(_, _)
cumulative_net(monthly_schedule, j) ==
    IF j = 0 THEN 0 ELSE cumulative_net(monthly_schedule, j - 1) + monthly_schedule[j]["net_income"]

\* the days of a year in the payback: 365.25
DaysPerYear == 3652500

\* _calculate_cumulative_payback with > 0 in place of >= 0
_calculate_cumulative_payback_strict(monthly_schedule) ==
    LET hits == {j \in 1..Len(monthly_schedule) : cumulative_net(monthly_schedule, j) > 0}
        break_even == CHOOSE j \in hits : \A l \in hits : j <= l
    IN  IF hits = {} THEN None
        ELSE PyFloat(Div(FromInt(Ordinal(dates[break_even]) - Ordinal(dates[1])), DaysPerYear))

\* _calculate_cumulative_payback: the years from the first row to the first
\* row whose cumulative net income is >= 0, None when there is none
_calculate_cumulative_payback(monthly_schedule) ==
    LET hits == {j \in 1..Len(monthly_schedule) : cumulative_net(monthly_schedule, j) >= 0}
        break_even == CHOOSE j \in hits : \A l \in hits : j <= l
    IN  IF hits = {} THEN None
        ELSE PyFloat(Div(FromInt(Ordinal(dates[break_even]) - Ordinal(dates[1])), DaysPerYear))

\* the sum of a column of the annual summary; inf as in SumColumn
RECURSIVE SumAnnual(_, _, _)
SumAnnual(summary, c, ys) ==
    IF ys = {} THEN 0
    ELSE LET y == CHOOSE z \in ys : TRUE
             rest == SumAnnual(summary, c, ys \ {y})
         IN  IF rest = Inf \/ summary[y][c] = Inf THEN Inf ELSE rest + summary[y][c]

\* lines 545-562, 626-628: the totals of total_metrics that are sums of an
\* annual column or its last value
SumMetrics(summary) ==
    LET ys == DOMAIN summary
        last == CHOOSE y \in ys : \A z \in ys : z <= y
        S(c) == SumAnnual(summary, c, ys)
    IN  [total_interest_income_loans |-> S("interest_income_loans"),
         total_interest_income_lines |-> S("interest_income_lines"),
         total_interest_income |-> S("interest_income_loans") + S("interest_income_lines")
                                       + S("origination_fees"),
         total_interest_expense |-> S("interest_expense"),
         total_non_interest_income |-> S("non_interest_income"),
         total_non_interest_expense |-> S("non_interest_expense"),
         total_provision_expense |-> S("provision_expense"),
         total_net_income |-> S("net_income"),
         total_salary_expense |-> S("salary_expense"),
         total_incentive_compensation_expense |-> S("incentive_compensation_expense"),
         total_benefits_expense |-> S("benefits_expense"),
         total_discretionary_expense |-> S("discretionary_expense"),
         total_origination_fees |-> S("origination_fees"),
         total_unused_commitment_fees |-> S("unused_commitment_fees"),
         total_deferred_origination_fees |-> summary[last]["deferred_origination_fees"],
         total_amortized_origination_fees |-> S("origination_fees"),
         total_deferred_costs |-> summary[last]["deferred_costs"],
         total_deferred_cost_amortization |-> S("deferred_cost_amortization"),
         total_indirect_costs |-> S("indirect_costs")]

\* annual_summary['net_income'] read by position, the rows in the order of
\* their years
net_income_values(summary) ==
    [p \in 1..Cardinality(DOMAIN summary) |->
        summary[CHOOSE y \in DOMAIN summary :
                    Cardinality({z \in DOMAIN summary : z < y}) = p - 1]["net_income"]]

\* lines 597-598: the growth rate of every year after the first whose
\* previous year is not 0, for the first n values
RECURSIVE annual_growth_rates(_, _)
annual_growth_rates(values, n) ==
    IF n <= 1 THEN <<>>
    ELSE IF values[n - 1] # 0
    THEN Append(annual_growth_rates(values, n - 1),
                Div(values[n] - values[n - 1], values[n - 1]))
    ELSE annual_growth_rates(values, n - 1)

\* the sum of the first n elements of a list of floats
RECURSIVE SumList(_, _)
SumList(xs, n) == IF n = 0 THEN 0 ELSE SumList(xs, n - 1) + xs[n]

\* np.mean of the rates, if it divided by the number of all pairs of years
MeanOverAllPairs(rates, values) ==
    IF rates = <<>> THEN 0
    ELSE Div(SumList(rates, Len(rates)), FromInt(Len(values) - 1))

\* line 599: np.mean(annual_growth_rates) if annual_growth_rates else 0.0
MeanOrZero(rates, values) ==
    IF rates = <<>> THEN 0
    ELSE Div(SumList(rates, Len(rates)), FromInt(Len(rates)))

\* lines 594-604: total_metrics['net_income_aagr']
net_income_aagr(values) ==
    MeanOrZero(annual_growth_rates(values, Len(values)), values)

\* the except clauses of RMProFormaModel.calculate_pro_forma (670-677) and
\* of calculate_pro_forma (723-730): a ValueError is raised again as
\* ValueError("Validation error: ..."), anything else as
\* ValueError("An unexpected error occurred: ...")
WrapError(e) ==
    [e EXCEPT !.exc = "ValueError",
              !.prefixes = << IF e.exc = "ValueError" THEN "Validation error"
                              ELSE "An unexpected error occurred" >> \o @]

(***************************************************************************)
(* The caller's maps the model runs on                                     *)
(***************************************************************************)

\* the largest number of months between hire and first production
MaxGap == 6

\* the largest length of annualProduction and of goingOnYields
MaxYears == 6

RECURSIVE NatStr(_)
NatStr(n) == IF n < 10 THEN << DigitChar[n + 1] >> ELSE NatStr(n \div 10) \o << DigitChar[(n % 10) + 1] >>

\* the digits of the fraction fr/Scale, without trailing zeros
RECURSIVE FracStr(_, _)
FracStr(fr, width) ==
    IF fr = 0 THEN <<>>
    ELSE << DigitChar[(fr \div (10 ^ (width - 1))) + 1] >> \o FracStr(fr % (10 ^ (width - 1)), width - 1)

\* the text of the number x as a caller writes it: "50", "2.5", "-5"
NumStr(x) ==
    (IF x < 0 THEN << "-" >> ELSE <<>>) \o NatStr(Abs(x) \div Scale)
        \o (IF Abs(x) % Scale = 0 THEN <<>> ELSE << "." >> \o FracStr(Abs(x) % Scale, 4))

\* the number x as a Python number: an int when it is whole
PyNum(x) == IF x % Scale = 0 THEN PyInt(x \div Scale) ELSE PyFloat(x)

BaseProductionYear == [loans |-> PyInt(600), deposits |-> PyInt(360)]

BaseYieldYear == [loans |-> PyInt(3), lines |-> PyInt(2), deposits |-> PyInt(1)]

\* a map every field of which is well formed: the scenario of 6,000,000 of
\* loans and 3,600,000 of deposits a year, in units of 10,000
BaseInputs ==
    [rmHireDate |-> PyStr(DateStr(MkDate(2024, 1, 1))),
     firstProductionDate |-> PyStr(DateStr(MkDate(2024, 7, 1))),
     annualProduction |-> PyList([y \in 1..5 |-> BaseProductionYear]),
     loanVsLinePercentage |-> PyInt(50),
     goingOnYields |-> PyList([y \in 1..5 |-> BaseYieldYear]),
     lineUtilizationPercentage |-> PyInt(50),
     originationFeePercentage |-> PyFloat(2500),
     unusedCommitmentFeePercentage |-> PyFloat(2500),
     salary |-> PyFloat(75000),
     annualMeritIncrease |-> PyInt(3),
     discretionaryExpenses |-> PyFloat(6000),
     deferredCostsPerLoan |-> PyFloat(1000),
     averageLifeLoans |-> PyInt(5),
     averageLifeLines |-> PyInt(3),
     prepayPercentageOfBalance |-> PyInt(25),
     incentiveCompensationPercentage |-> PyInt(10),
     avgLoanExposureAtOrigination |-> PyInt(25)]

\* the first day of the month g months after the month of date dt, on day d
ShiftMonths(dt, g, d) ==
    LET k == MonthIndex(dt) + g IN MkDate(k \div 12, (k % 12) + 1, d)

HireDates == {MkDate(2024, 1, 1), MkDate(2023, 11, 15)}

\* the maps that differ from BaseInputs in the two dates
DateMaps ==
    { [BaseInputs EXCEPT !["rmHireDate"] = PyStr(DateStr(h)),
                         !["firstProductionDate"] = PyStr(DateStr(ShiftMonths(h, g, d)))] :
        h \in HireDates, g \in (0 - 1)..MaxGap, d \in {1, 15} }

\* dates that are no "YYYY-MM-DD" text, and dates given as datetime objects
DateKindMaps ==
    { [BaseInputs EXCEPT ![f] = v] :
        f \in Range(date_fields),
        v \in { PyStr(<< "0", "7", "/", "0", "1", "/", "2", "0", "2", "4" >>),
                PyStr(DateStr(MkDate(2024, 2, 30))),
                PyDatetime(MkDate(2024, 3, 1)), PyDate(MkDate(2024, 3, 1)), PyNone } }
    \cup { [BaseInputs EXCEPT !["rmHireDate"] = PyDatetime(h),
                              !["firstProductionDate"] = PyDatetime(MkDate(2024, 2, 1))] :
             h \in {MkDate(2024, 1, 1), MkDate(2024, 3, 1)} }
    \cup { [BaseInputs EXCEPT !["rmHireDate"] = PyDatetime(MkDate(2024, 9, 1))] }

\* the numbers a percentage field is given
PercentNumbers == {FromInt(10), 25000, FromInt(150), 0 - FromInt(5)}

\* the three forms of the number x: the number, its text, its text with '%'
PercentForms(x) == {PyNum(x), PyStr(NumStr(x)), PyStr(NumStr(x) \o << "%" >>)}

\* values of other shapes and types
OddValues ==
    { PyNone, PyList(<<>>), PyBool(TRUE), PyStr(<< "a", "b", "c" >>), PyStr(<<>>),
      PyStr(<< " ", "1", "0", " ", "%", "%" >>) }

\* every percentage field in every form, and a prepayment percentage far
\* above 100 (a monthly prepayment of more than twice the balance)
PercentageMaps ==
    { [BaseInputs EXCEPT ![f] = v] :
        f \in Range(percentage_fields),
        v \in UNION {PercentForms(x) : x \in PercentNumbers} \cup OddValues }
    \cup { [BaseInputs EXCEPT !["prepayPercentageOfBalance"] = PyInt(2420)] }

NumericMaps ==
    { [BaseInputs EXCEPT ![f] = v] :
        f \in Range(numeric_fields),
        v \in { PyInt(0), PyStr(<< "$", "5", ",", "0", ".", "0" >>), PyNone,
                PyStr(<< "a", "b", "c" >>) } }
    \cup { [BaseInputs EXCEPT !["salary"] = PyInt(0), !["discretionaryExpenses"] = PyInt(0)],
           [BaseInputs EXCEPT !["salary"] = PyStr(<< "-", "7", ".", "5" >>)] }

\* indirectCostsPerLoan is optional
IndirectMaps ==
    { [f \in DOMAIN BaseInputs \cup {"indirectCostsPerLoan"} |->
          IF f = "indirectCostsPerLoan" THEN v ELSE BaseInputs[f]] :
        v \in { PyInt(1), PyFloat(500), PyStr(<< "1" >>), PyStr(<< "a", "b", "c" >>), PyNone } }

\* maps that lack a required field
MissingMaps ==
    { [f \in DOMAIN BaseInputs \ {g} |-> BaseInputs[f]] : g \in Range(required_fields) }

\* nested structures of every length up to MaxYears, with a year without
\* loans, a year that lacks a key, a year with a malformed value
NestedMaps ==
    { [BaseInputs EXCEPT !["annualProduction"] = PyList([y \in 1..n |-> BaseProductionYear])] :
        n \in 0..MaxYears }
    \cup { [BaseInputs EXCEPT !["goingOnYields"] = PyList([y \in 1..n |-> BaseYieldYear])] :
             n \in 0..MaxYears }
    \cup { [BaseInputs EXCEPT !["annualProduction"] =
               PyList([y \in 1..5 |-> IF y = z THEN [BaseProductionYear EXCEPT !["loans"] = v]
                                      ELSE BaseProductionYear])] :
             z \in {1, 3, 5}, v \in {PyInt(0), PyStr(<< "1", ",", "2", "0", "0" >>), PyNone} }
    \cup { [BaseInputs EXCEPT !["goingOnYields"] =
               PyList([y \in 1..5 |-> IF y = 2 THEN [BaseYieldYear EXCEPT ![k] = v]
                                      ELSE BaseYieldYear])] :
             k \in {"loans", "lines", "deposits"},
             v \in {PyStr(<< "3", "%" >>), PyNone, PyInt(0 - 1), PyInt(200)} }
    \cup { [BaseInputs EXCEPT !["annualProduction"] =
               PyList([y \in 1..5 |-> IF y = 2 THEN [deposits |-> PyInt(360)]
                                      ELSE BaseProductionYear])],
           [BaseInputs EXCEPT !["goingOnYields"] =
               PyList([y \in 1..5 |-> IF y = 2 THEN [loans |-> PyInt(3), lines |-> PyInt(2)]
                                      ELSE BaseYieldYear])],
           [BaseInputs EXCEPT !["annualProduction"] = PyNone],
           [BaseInputs EXCEPT !["goingOnYields"] = PyInt(3)] }

\* test_data of RMProFormaIntegrationTest.get, the amounts in units of
\* 10,000
test_data ==
    [annualProduction |-> PyList([y \in 1..5 |-> [loans |-> PyInt(50), deposits |-> PyInt(30)]]),
     loanVsLinePercentage |-> PyInt(50),
     goingOnYields |->
         PyList([y \in 1..5 |-> [loans |-> PyInt(3), lines |-> PyInt(2), deposits |-> PyInt(3)]]),
     lineUtilizationPercentage |-> PyInt(50),
     originationFeePercentage |-> PyFloat(2500),
     unusedCommitmentFeePercentage |-> PyFloat(2500),
     salary |-> PyFloat(75000),
     annualMeritIncrease |-> PyInt(3),
     discretionaryExpenses |-> PyFloat(6000),
     deferredCostsPerLoan |-> PyFloat(1),
     averageLifeLoans |-> PyInt(5),
     averageLifeLines |-> PyInt(3),
     prepayPercentageOfBalance |-> PyInt(25)]

InputMaps ==
    DateMaps \cup DateKindMaps \cup PercentageMaps \cup NumericMaps \cup IndirectMaps
        \cup MissingMaps \cup NestedMaps

(***************************************************************************)
(* The steps of one call                                                   *)
(***************************************************************************)

\* a request: the map posted to RMProFormaCalculation, or the request of
\* the integration test, which carries test_data
Init ==
    /\ inputs \in InputMaps \cup {test_data}
    /\ given = inputs
    /\ pc = "start"
    /\ rm_hire_date = None
    /\ first_production_date = None
    /\ end_date = None
    /\ dates = <<>>
    /\ yield_curves = << >>
    /\ incentive_compensation_percentage = None
    /\ direct_cost_per_loan = None
    /\ indirect_cost_per_loan = None
    /\ df = <<>>
    /\ i = 0
    /\ annual_summary = None
    /\ cumulative_payback = None
    /\ total_metrics = None
    /\ results = None
    /\ error = NoError
    /\ response = None

\* calculate_pro_forma raises e: the handlers between the place that raises
\* and the caller wrap it (depth of them)
Raise(e, handlers) ==
    /\ pc' = "raised"
    /\ error' = IF handlers = 2 THEN WrapError(WrapError(e)) ELSE WrapError(e)

\* line 30: self.validate_inputs()
ValidateInputs ==
    /\ pc = "start"
    /\ \E r \in {validate_inputs(inputs)} :
           /\ inputs' = r.inputs
           /\ IF r.err = NoError
              THEN pc' = "validated" /\ UNCHANGED error
              ELSE Raise(r.err, 1)
    /\ UNCHANGED << rm_hire_date, first_production_date, end_date, dates, yield_curves,
                    incentive_compensation_percentage, direct_cost_per_loan,
                    indirect_cost_per_loan, df, i, annual_summary, cumulative_payback,
                    results, total_metrics, response, given >>

\* lines 31-34: the dates of the projection
BuildDates ==
    /\ pc = "validated"
    /\ rm_hire_date' = inputs["rmHireDate"].n
    /\ first_production_date' = inputs["firstProductionDate"].n
    /\ end_date' = AddYears(inputs["firstProductionDate"].n, HorizonYears)
    /\ dates' = date_range(inputs["rmHireDate"].n,
                           AddYears(inputs["firstProductionDate"].n, HorizonYears))
    /\ pc' = "dated"
    /\ UNCHANGED << inputs, yield_curves, incentive_compensation_percentage,
                    direct_cost_per_loan, indirect_cost_per_loan, df, i, annual_summary,
                    cumulative_payback, results, total_metrics, error, response, given >>

\* line 35: self.yield_curves = self._initialize_yield_curves()
InitializeYieldCurves ==
    /\ pc = "dated"
    /\ IF Len(inputs["goingOnYields"].items) < CurveYears
       THEN /\ Raise(Exc("IndexError", "list index out of range", ""), 1)
            /\ UNCHANGED yield_curves
       ELSE /\ yield_curves' = _initialize_yield_curves
            /\ pc' = "curved"
            /\ UNCHANGED error
    /\ UNCHANGED << inputs, rm_hire_date, first_production_date, end_date, dates,
                    incentive_compensation_percentage, direct_cost_per_loan,
                    indirect_cost_per_loan, df, i, annual_summary, cumulative_payback,
                    results, total_metrics, response, given >>

\* lines 36-38: the percentages and costs the engine keeps as attributes
ReadCosts ==
    /\ pc = "curved"
    /\ incentive_compensation_percentage' = inputs["incentiveCompensationPercentage"].n
    /\ direct_cost_per_loan' = inputs["deferredCostsPerLoan"]
    /\ indirect_cost_per_loan' =
           IF "indirectCostsPerLoan" \in DOMAIN inputs THEN inputs["indirectCostsPerLoan"]
           ELSE PyInt(0)
    /\ pc' = "constructed"
    /\ UNCHANGED << inputs, rm_hire_date, first_production_date, end_date, dates,
                    yield_curves, df, i, annual_summary, cumulative_payback, results,
                    total_metrics, error, response, given >>

\* lines 171-188: the empty frame of _generate_monthly_schedule
CreateFrame ==
    /\ pc = "constructed"
    /\ df' = NewFrame(dates)
    /\ i' = 0
    /\ pc' = "rolling"
    /\ UNCHANGED << inputs, rm_hire_date, first_production_date, end_date, dates,
                    yield_curves, incentive_compensation_percentage, direct_cost_per_loan,
                    indirect_cost_per_loan, annual_summary, cumulative_payback, results,
                    total_metrics, error, response, given >>

\* the except clause of the loop with `continue` in place of `raise`: the
\* failure is logged, the row is left as it was created and the loop goes on
MonthFailureSkipped(e) ==
    /\ i' = i + 1
    /\ UNCHANGED << df, pc, error >>

\* lines 282-285: the except clause of the loop logs the date and raises
\* the exception again; the handlers of the method (670-677) and of the
\* function (723-730) wrap it
MonthFailure(e) ==
    /\ Raise(e, 2)
    /\ UNCHANGED << df, i >>

\* lines 190-285: one turn of the loop over self.dates; an exception leaves
\* the loop, the method and the function
MonthStep ==
    /\ pc = "rolling"
    /\ i < Len(dates)
    /\ \E e \in {MonthError(i)} :
           IF e = NoError
           THEN /\ df' = MonthRow(i, df)
                /\ i' = i + 1
                /\ UNCHANGED << pc, error >>
           ELSE MonthFailure(e)
    /\ UNCHANGED << inputs, rm_hire_date, first_production_date, end_date, dates,
                    yield_curves, incentive_compensation_percentage, direct_cost_per_loan,
                    indirect_cost_per_loan, annual_summary, cumulative_payback, results,
                    total_metrics, response, given >>

\* line 527: annual_summary = self._generate_annual_summary(monthly_schedule)
GenerateAnnualSummary ==
    /\ pc = "rolling"
    /\ i = Len(dates)
    /\ annual_summary' = _generate_annual_summary(df)
    /\ pc' = "summarised"
    /\ UNCHANGED << inputs, rm_hire_date, first_production_date, end_date, dates,
                    yield_curves, incentive_compensation_percentage, direct_cost_per_loan,
                    indirect_cost_per_loan, df, i, cumulative_payback, results,
                    total_metrics, error, response, given >>

\* line 533: cumulative_payback = self._calculate_cumulative_payback(monthly_schedule)
CalculateCumulativePayback ==
    /\ pc = "summarised"
    /\ cumulative_payback' = _calculate_cumulative_payback(df)
    /\ pc' = "paid_back"
    /\ UNCHANGED << inputs, rm_hire_date, first_production_date, end_date, dates,
                    yield_curves, incentive_compensation_percentage, direct_cost_per_loan,
                    indirect_cost_per_loan, df, i, annual_summary, results, total_metrics,
                    error, response, given >>

\* lines 543-628: total_metrics
CalculateTotalMetrics ==
    /\ pc = "paid_back"
    /\ total_metrics' =
           SumMetrics(annual_summary)
               @@ [net_income_aagr |-> net_income_aagr(net_income_values(annual_summary))]
    /\ pc' = "measured"
    /\ UNCHANGED << inputs, rm_hire_date, first_production_date, end_date, dates,
                    yield_curves, incentive_compensation_percentage, direct_cost_per_loan,
                    indirect_cost_per_loan, df, i, annual_summary, cumulative_payback,
                    results, error, response, given >>

\* the None that stands in a numeric cell of the output (null in JSON)
Null == NaN - 1

\* json_serial (lines 652-662) on a float: None for a NaN
json_serial(obj) == IF obj = NaN THEN Null ELSE obj

\* json.loads(json.dumps(x, default=json_serial)) (line 664) on a number:
\* json.dumps writes every float itself, a NaN as the literal NaN that
\* json.loads reads back as a NaN; it calls default only for an object it
\* cannot write, which a float never is
JsonRoundTrip(x) == IF x \in Int THEN x ELSE json_serial(x)

\* line 664 on the records of a frame
JsonRows(rows) ==
    [j \in DOMAIN rows |-> [c \in DOMAIN rows[j] |-> JsonRoundTrip(rows[j][c])]]

\* line 709: v if not isinstance(v, (float, int)) or not np.isnan(v) else None
NullIfNaN(v) == IF v = NaN THEN Null ELSE v

\* lines 706-711: the rows of results['monthlySchedule'] and of
\* results['annualSummary'] with None for every NaN
NullNaNRows(rows) ==
    [j \in DOMAIN rows |-> [c \in DOMAIN rows[j] |-> NullIfNaN(rows[j][c])]]

\* lines 633-668, 703-722: the result calculate_pro_forma returns
ReturnResults ==
    /\ pc = "measured"
    /\ results' = [monthlySchedule |-> NullNaNRows(JsonRows(df)),
                   annualSummary |-> NullNaNRows(JsonRows(annual_summary)),
                   totalMetrics |->
                       [k \in DOMAIN total_metrics |-> JsonRoundTrip(total_metrics[k])],
                   cumulativePayback |-> cumulative_payback,
                   yieldCurves |->
                       [d \in DOMAIN yield_curves |->
                           [t \in DOMAIN yield_curves[d] |->
                               JsonRoundTrip(yield_curves[d][t])]]]
    /\ pc' = "returned"
    /\ UNCHANGED << inputs, rm_hire_date, first_production_date, end_date, dates,
                    yield_curves, incentive_compensation_percentage, direct_cost_per_loan,
                    indirect_cost_per_loan, df, i, annual_summary, cumulative_payback,
                    total_metrics, error, response, given >>

\* RMProFormaCalculation.post: the result as JSON, or the error with status 400
Respond ==
    /\ pc \in {"returned", "raised"}
    /\ given # test_data
    /\ response' = IF pc = "returned" THEN [status |-> 200, body |-> results]
                   ELSE [status |-> 400, body |-> error]
    /\ pc' = "responded"
    /\ UNCHANGED << inputs, rm_hire_date, first_production_date, end_date, dates,
                    yield_curves, incentive_compensation_percentage, direct_cost_per_loan,
                    indirect_cost_per_loan, df, i, annual_summary, cumulative_payback,
                    results, total_metrics, error, given >>

\* RMProFormaIntegrationTest.get: 200 and "Integration test passed" with the
\* result, or 500 and "Integration test failed: ..." with the error
RespondIntegrationTest ==
    /\ pc \in {"returned", "raised"}
    /\ given = test_data
    /\ response' = IF pc = "returned"
                   THEN [status |-> 200, message |-> "Integration test passed",
                         body |-> results]
                   ELSE [status |-> 500, message |-> "Integration test failed",
                         body |-> error]
    /\ pc' = "responded"
    /\ UNCHANGED << inputs, rm_hire_date, first_production_date, end_date, dates,
                    yield_curves, incentive_compensation_percentage, direct_cost_per_loan,
                    indirect_cost_per_loan, df, i, annual_summary, cumulative_payback,
                    results, total_metrics, error, given >>

Next ==
    \/ ValidateInputs
    \/ BuildDates
    \/ InitializeYieldCurves
    \/ ReadCosts
    \/ CreateFrame
    \/ MonthStep
    \/ GenerateAnnualSummary
    \/ CalculateCumulativePayback
    \/ CalculateTotalMetrics
    \/ ReturnResults
    \/ Respond
    \/ RespondIntegrationTest

Spec == Init /\ [][Next]_vars

(***************************************************************************)
(* The rendering of the result, applied to results of any content          *)
(***************************************************************************)

\* the most rows of a monthly schedule handed to the rendering
MaxRows == 2

\* the values of a cell: not a number, infinite, zero, an amount
Cells == {NaN, Inf, 0, FromInt(5)}

\* a row of the frame with one value in net_income and 0 elsewhere
CellRow(v) == [c \in Columns |-> IF c = "net_income" THEN v ELSE 0]

\* the call stands before lines 633-668 with a schedule, a summary and
\* metrics that hold the values of Cells
RenderInit ==
    /\ inputs = BaseInputs
    /\ given = inputs
    /\ pc = "measured"
    /\ rm_hire_date = MkDate(2024, 1, 1)
    /\ first_production_date = MkDate(2024, 1, 1)
    /\ end_date = MkDate(2024, 1, 1)
    /\ \E n \in 1..MaxRows :
           /\ dates = [j \in 1..n |-> MkDate(2024, j, 1)]
           /\ df \in [1..n -> {CellRow(v) : v \in Cells}]
           /\ i = n
    /\ yield_curves = [d \in {MkDate(2024, 1, 1)} |-> YieldCurve(tenors, base_rates)]
    /\ incentive_compensation_percentage = 0
    /\ direct_cost_per_loan = PyFloat(0)
    /\ indirect_cost_per_loan = PyFloat(0)
    /\ annual_summary \in [{2024} -> {CellRow(v) : v \in Cells}]
    /\ cumulative_payback \in {None, PyFloat(0)}
    /\ total_metrics \in [{"total_net_income", "return_on_average_equity"} -> Cells]
    /\ results = None
    /\ error = NoError
    /\ response = None

RenderNext == ReturnResults \/ Respond

RenderSpec == RenderInit /\ [][RenderNext]_vars

(***************************************************************************)
(* The metrics of the whole period, applied to annual summaries of any     *)
(* net income                                                              *)
(***************************************************************************)

\* the most years of an annual summary handed to the metrics
MaxSummaryYears == 3

\* the net income of a year: none, a profit, twice the profit, a loss
Incomes == {0, FromInt(2), FromInt(4), 0 - FromInt(2)}

\* the call stands before lines 543-628 with an annual summary whose net
\* incomes are values of Incomes
MetricsInit ==
    /\ inputs = BaseInputs
    /\ given = inputs
    /\ pc = "paid_back"
    /\ rm_hire_date = MkDate(2024, 1, 1)
    /\ first_production_date = MkDate(2024, 1, 1)
    /\ end_date = MkDate(2024, 1, 1)
    /\ dates = << MkDate(2024, 1, 1) >>
    /\ df = << CellRow(0) >>
    /\ i = 1
    /\ yield_curves = [d \in {MkDate(2024, 1, 1)} |-> YieldCurve(tenors, base_rates)]
    /\ incentive_compensation_percentage = 0
    /\ direct_cost_per_loan = PyFloat(0)
    /\ indirect_cost_per_loan = PyFloat(0)
    /\ \E n \in 1..MaxSummaryYears :
           annual_summary \in [2024..(2024 + n - 1) -> {CellRow(v) : v \in Incomes}]
    /\ cumulative_payback = None
    /\ total_metrics = None
    /\ results = None
    /\ error = NoError
    /\ response = None

MetricsNext == CalculateTotalMetrics \/ ReturnResults \/ Respond

MetricsSpec == MetricsInit /\ [][MetricsNext]_vars

(***************************************************************************)
(* Two calls whose maps differ only in goingOnYields[k]['lines']           *)
(***************************************************************************)

\* the maps of the first call: hire on the first or in the middle of a
\* month, production from the month of hire or MaxGap months later
LinesRequests ==
    { [BaseInputs EXCEPT !["rmHireDate"] = PyStr(DateStr(h)),
                         !["firstProductionDate"] = PyStr(DateStr(ShiftMonths(h, g, d)))] :
        h \in HireDates, g \in {0, MaxGap}, d \in {1, 15} }

\* the values goingOnYields[k]['lines'] takes in the second call, each one
\* a value parse_percentage accepts and none the value of the first call
LinesValues == {PyInt(0), PyStr(<< "7", "%" >>), PyFloat(125000)}

LinesInit == Init /\ given \in LinesRequests

\* lines 693-700 once more: calculate_pro_forma is called with the map of
\* the first call but for one goingOnYields[k]['lines']; a new
\* RMProFormaModel is built, and the result of the first call is kept
ReviseLines ==
    /\ pc = "returned"
    /\ given \in LinesRequests
    /\ \E k \in 1..CurveYears, v \in LinesValues :
           /\ ParsePercentageOk(v)
           /\ given' = [given EXCEPT !["goingOnYields"].items[k]["lines"] = v]
    /\ inputs' = given'
    /\ pc' = "start"
    /\ rm_hire_date' = None
    /\ first_production_date' = None
    /\ end_date' = None
    /\ dates' = <<>>
    /\ yield_curves' = << >>
    /\ incentive_compensation_percentage' = None
    /\ direct_cost_per_loan' = None
    /\ indirect_cost_per_loan' = None
    /\ df' = <<>>
    /\ i' = 0
    /\ annual_summary' = None
    /\ cumulative_payback' = None
    /\ total_metrics' = None
    /\ UNCHANGED << results, error, response >>

LinesNext ==
    \/ ValidateInputs
    \/ BuildDates
    \/ InitializeYieldCurves
    \/ ReadCosts
    \/ CreateFrame
    \/ MonthStep
    \/ GenerateAnnualSummary
    \/ CalculateCumulativePayback
    \/ CalculateTotalMetrics
    \/ ReturnResults
    \/ ReviseLines

LinesSpec == LinesInit /\ [][LinesNext]_vars

(***************************************************************************)
(* Properties of the projection                                            *)
(***************************************************************************)

\* validate_inputs has returned: the call stands right after it, or the
\* constructor has gone on and set its dates
Validated == pc = "validated" \/ dates # <<>>

\* the columns of balances, income and fees
ZeroBeforeProduction ==
    { "loan_balance", "line_balance", "deposit_balance", "interest_income_loans",
      "interest_income_lines", "non_interest_income", "origination_fees",
      "unused_commitment_fees" }

\* C1: every computed row of the monthly schedule dated before the first
\* production date has balances of loans, lines and deposits of 0 and every
\* income and fee column of 0, whatever the gap between hire and production.
C1_PreProductionRowsAreZero ==
    \A j \in 1..i :
        dates[j] < first_production_date =>
            \A c \in ZeroBeforeProduction : df[j][c] = 0

\* three months before production have been computed, with a salary paid
C1_Witness ==
    /\ i >= 3
    /\ dates[3] < first_production_date
    /\ df[3]["salary_expense"] > 0

\* C2: in every computed production month but the first the loan balance is
\* the balance of the month before, less the prepayment and the scheduled
\* amortization of the month, plus its production; in the first production
\* month the balance before is 0, prepayment and amortization are 0 and the
\* balance is the production of the month, annualProduction[0].loans / 12.
C2_LoanRollforward ==
    \A j \in 1..i :
        dates[j] >= first_production_date =>
            IF j = 1 \/ dates[j - 1] < first_production_date
            THEN /\ j > 1 => df[j - 1]["loan_balance"] = 0
                 /\ df[j]["loan_prepayment_amount"] = 0
                 /\ df[j]["loan_scheduled_amortization"] = 0
                 /\ df[j]["loan_balance"] = df[j]["loan_monthly_production"]
                 /\ df[j]["loan_balance"] = Div(AnnualProduction(0, "loans"), FromInt(12))
            ELSE df[j]["loan_balance"] =
                     df[j - 1]["loan_balance"] - df[j]["loan_prepayment_amount"]
                         - df[j]["loan_scheduled_amortization"]
                         + df[j]["loan_monthly_production"]

\* a production month after the first, with a prepayment and an amortization
C2_Witness ==
    \E j \in 2..i :
        /\ dates[j - 1] >= first_production_date
        /\ df[j]["loan_prepayment_amount"] > 0
        /\ df[j]["loan_scheduled_amortization"] > 0

\* the payback has been computed
PaybackKnown ==
    \/ pc \in {"paid_back", "measured", "returned"}
    \/ pc = "responded" /\ results # None

\* C3: the payback is None exactly when no month of the schedule has a
\* cumulative profit >= 0; otherwise it is the time from the first row to the
\* first month whose cumulative profit is >= 0, every month before it having
\* a cumulative profit < 0.
C3_PaybackIsFirstCrossing ==
    PaybackKnown =>
        /\ (cumulative_payback = None) <=>
               (\A j \in 1..Len(df) : df[j]["cumulative_profit"] < 0)
        /\ cumulative_payback # None =>
               \E j \in 1..Len(df) :
                   /\ df[j]["cumulative_profit"] >= 0
                   /\ \A l \in 1..(j - 1) : df[l]["cumulative_profit"] < 0
                   /\ cumulative_payback =
                          PyFloat(Div(FromInt(Ordinal(dates[j]) - Ordinal(dates[1])),
                                      DaysPerYear))

\* a payback after the first month
C3_Witness ==
    /\ PaybackKnown
    /\ cumulative_payback # None
    /\ cumulative_payback.n > 0

\* the caller gave the hire date 2024-01-01 and the first production date
\* 2024-07-01, and the constructor has built its dates
HiredJanuaryProducingJuly ==
    /\ "rmHireDate" \in DOMAIN given
    /\ "firstProductionDate" \in DOMAIN given
    /\ given["rmHireDate"] = PyStr(DateStr(MkDate(2024, 1, 1)))
    /\ given["firstProductionDate"] = PyStr(DateStr(MkDate(2024, 7, 1)))
    /\ dates # <<>>

\* C4: for the hire date 2024-01-01 and the first production date 2024-07-01
\* the schedule has exactly 66 rows, from January 2024 to June 2029, and no
\* row for the first production date plus 5 years.
C4_SixtySixRows ==
    HiredJanuaryProducingJuly =>
        /\ Len(dates) = 66
        /\ dates[1] = MkDate(2024, 1, 1)
        /\ dates[Len(dates)] = MkDate(2029, 6, 1)
        /\ \A j \in 1..Len(dates) : dates[j] # MkDate(2029, 7, 1)

\* the dates of that call have been built
C4_Witness == HiredJanuaryProducingJuly /\ Len(dates) > 0

\* the date the caller gave for field f, when parse_date takes it
GivenDate(f) == ParseDateVal(given[f]).n

\* the caller gave a first production date earlier than the hire date
FirstProductionEarlier ==
    /\ "rmHireDate" \in DOMAIN given
    /\ "firstProductionDate" \in DOMAIN given
    /\ ParseDateOk(given["rmHireDate"])
    /\ ParseDateOk(given["firstProductionDate"])
    /\ GivenDate("firstProductionDate") < GivenDate("rmHireDate")

\* C5: when the first production date is earlier than the hire date the call
\* fails with a ValueError raised by the validation, and nothing of the
\* projection exists when it is raised: no dates, no yield curve, no row.
C5_EarlierProductionFailsFirst ==
    FirstProductionEarlier =>
        /\ pc \in {"start", "raised", "responded"}
        /\ ~Validated
        /\ dates = <<>> /\ yield_curves = <<>> /\ df = <<>> /\ results = None
        /\ pc # "start" =>
               /\ error.exc = "ValueError"
               /\ (ParseDateVal(given["rmHireDate"]).k =
                       ParseDateVal(given["firstProductionDate"]).k) =>
                      error.text = "First Production Date cannot be earlier than RM Hire Date"
        /\ pc = "responded" => response.status = 400

\* such a call has been answered
C5_Witness ==
    /\ FirstProductionEarlier
    /\ pc = "responded"
    /\ error.text = "First Production Date cannot be earlier than RM Hire Date"

\* every element of a validated nested structure holds floats
NestedTyped ==
    /\ \A j \in 1..Len(inputs["annualProduction"].items) :
           \A k \in {"loans", "deposits"} : inputs["annualProduction"].items[j][k].k = "float"
    /\ \A j \in 1..Len(inputs["goingOnYields"].items) :
           \A k \in {"loans", "lines", "deposits"} :
               inputs["goingOnYields"].items[j][k].k = "float"

\* C6: no un-parsed or wrongly typed value reaches the monthly rollforward:
\* when the loop over the months runs, every percentage and numeric field,
\* every sub-field of the nested structures and the indirect cost per loan is
\* a number the validation has produced.
C6_OnlyTypedValuesReachRollforward ==
    pc = "rolling" =>
        /\ \A f \in Range(percentage_fields) \cup Range(numeric_fields) : inputs[f].k = "float"
        /\ NestedTyped
        /\ indirect_cost_per_loan.k \in {"int", "float"}

\* the loop over the months runs with an indirect cost per loan that is a text
C6_Witness == pc = "rolling" /\ indirect_cost_per_loan.k = "str"

\* C7: the validation accepts annualProduction and goingOnYields only with
\* exactly 5 elements each, and no call fails later with an index error.
C7_ExactlyFiveYears ==
    /\ Validated =>
           /\ Len(inputs["annualProduction"].items) = 5
           /\ Len(inputs["goingOnYields"].items) = 5
    /\ error.origin # "IndexError"

\* a call the validation accepted has failed with an index error
C7_Witness == Validated /\ pc = "raised" /\ error.origin = "IndexError"

\* C8: for every percentage field and each number n given as the number n,
\* the text "n" or the text "n%", the validation accepts the value and stores
\* the fraction n/100; a value that is neither a number nor a text is
\* rejected with a ValueError naming the field.
C8_PercentageForms ==
    \A f \in Range(percentage_fields) :
        (f \in DOMAIN given /\ pc # "start") =>
            /\ \A x \in PercentNumbers :
                   given[f] \in PercentForms(x) =>
                       /\ ~(error.text = "Invalid percentage value for" /\ error.field = f)
                       /\ Validated => inputs[f] = PyFloat(Div(x, FromInt(100)))
            /\ given[f].k \notin {"int", "float", "bool", "str"} =>
                   /\ ~Validated
                   /\ error.exc = "ValueError"
                   /\ error.text = "Invalid percentage value for"
                   /\ error.field = f

\* a percentage given as the text "2.5%" has been stored as 0.025
C8_Witness ==
    /\ Validated
    /\ given["loanVsLinePercentage"] = PyStr(<< "2", ".", "5", "%" >>)
    /\ inputs["loanVsLinePercentage"] = PyFloat(250)

\* C9: after a successful validation every percentage field holds a
\* fraction within 0..1.
C9_PercentagesWithinRange ==
    Validated => \A f \in Range(percentage_fields) : inputs[f].n \in 0..Scale

\* the validation has accepted a percentage above 100
C9_Witness ==
    /\ Validated
    /\ \E f \in Range(percentage_fields) : inputs[f].n > Scale

\* C10: a month whose computation fails ends the run: every row the loop has
\* passed is computed, a call that raised returns no results and is answered
\* by the calculation endpoint with status 400 and the error alone, and
\* results that are returned hold the whole schedule with no NaN and no
\* infinite amount in it.
C10_FailedMonthAbortsRun ==
    /\ \A j \in 1..i : \A c \in Columns : df[j][c] # NaN
    /\ error # NoError =>
           /\ results = None
           /\ (pc = "responded" /\ given # test_data) =>
                  response = [status |-> 400, body |-> error]
    /\ results # None =>
           /\ error = NoError
           /\ Len(results.monthlySchedule) = Len(dates)
           /\ \A j \in 1..Len(dates) : \A c \in Columns \ {"efficiency_ratio"} :
                  results.monthlySchedule[j][c] \notin {NaN, Inf}

\* a division by zero in a month after rows had been computed, answered
C10_Witness ==
    /\ pc = "responded"
    /\ error.origin = "ZeroDivisionError"
    /\ i > 0
    /\ results = None

\* the call failed in the loop over the months: the frame exists and an
\* exception was raised
RollforwardFailed == error # NoError /\ df # <<>>

\* C11: a failure in the middle of the rollforward reaches the caller as an
\* error that is not labelled a validation error and that names the date of
\* the month that failed.
C11_ComputationErrorNamesDate ==
    RollforwardFailed =>
        /\ error.prefixes[1] # "Validation error"
        /\ error.date = dates[i + 1]

\* a month after the first has failed and the call has been answered
C11_Witness ==
    /\ RollforwardFailed
    /\ pc = "responded"
    /\ i > 0


\* C12: with an origination fee percentage that is not negative, the
\* deferred origination fees are never negative: the amortization of a month
\* never exceeds the balance deferred before it plus the fees of the month.
C12_DeferredFeesNeverNegative ==
    (i > 0 /\ In("originationFeePercentage") >= 0) =>
        \A j \in 1..i : df[j]["deferred_origination_fees"] >= 0

\* a month in production has been computed with a fee percentage that is
\* not negative
C12_Witness ==
    /\ i > 0
    /\ In("originationFeePercentage") >= 0
    /\ DateAt(i - 1) >= first_production_date
    /\ df[i]["origination_fees"] # 0

\* the call was given a positive salary and a merit increase above -100%,
\* and rows have been computed
PositiveSalary ==
    /\ i > 0
    /\ In("salary") > 0
    /\ FromInt(1) + In("annualMeritIncrease") > 0

\* C13 as stated: the salary-derived expenses are 0 in the row of the hire
\* month and positive in every row after it, for a positive salary.
C13_ZeroInHireMonth ==
    PositiveSalary =>
        \A j \in 1..i :
            LET derived == {df[j]["salary_expense"], df[j]["benefits_expense"],
                            df[j]["incentive_compensation_expense"]}
            IN  IF YearOf(dates[j]) = YearOf(rm_hire_date)
                       /\ MonthOf(dates[j]) = MonthOf(rm_hire_date)
                THEN derived = {0}
                ELSE \A x \in derived : x > 0

\* C13: for a positive salary (and a merit increase above -100%) the salary
\* and benefits expenses are positive in the row of the hire month and in
\* every row after it, and the incentive compensation expense of every row
\* on or after the first production date is the salary expense times the
\* incentive compensation percentage.
C13_AccruesFromHireMonth ==
    PositiveSalary =>
        \A j \in 1..i :
            /\ df[j]["salary_expense"] > 0
            /\ df[j]["benefits_expense"] > 0
            /\ dates[j] >= first_production_date =>
                   df[j]["incentive_compensation_expense"] =
                       Mul(df[j]["salary_expense"], incentive_compensation_percentage)

\* the row of the hire month and a row of a later year, both computed, with
\* a positive salary
C13_Witness ==
    /\ PositiveSalary
    /\ i > 12
    /\ dates[1] = rm_hire_date
    /\ df[1]["salary_expense"] > 0
    /\ df[i]["incentive_compensation_expense"] > 0

\* C14: the call is pure: it leaves the map of the caller as it was given,
\* whether it succeeds or fails, and a second call with the same map object
\* passes or fails validation exactly as the first did.
C14_CallLeavesMapUnchanged ==
    pc = "responded" =>
        /\ inputs = given
        /\ validate_inputs(inputs).err = validate_inputs(given).err

\* a call that succeeded has been answered
C14_Witness ==
    /\ pc = "responded"
    /\ results # None
    /\ validate_inputs(given).err = NoError

\* the numbers of the output: the cells of the rows of the schedule and of
\* the summary, the metrics, the rates of the curves
OutputNumbers ==
    UNION {{results.monthlySchedule[j][c] : c \in DOMAIN results.monthlySchedule[j]} :
               j \in DOMAIN results.monthlySchedule}
    \cup UNION {{results.annualSummary[y][c] : c \in DOMAIN results.annualSummary[y]} :
                    y \in DOMAIN results.annualSummary}
    \cup {results.totalMetrics[k] : k \in DOMAIN results.totalMetrics}
    \cup UNION {{results.yieldCurves[d][t] : t \in DOMAIN results.yieldCurves[d]} :
                    d \in DOMAIN results.yieldCurves}

\* C15: every NaN is rendered as null in every part of the output: the rows
\* of monthlySchedule and of annualSummary, the values of totalMetrics,
\* cumulativePayback and the rates of yieldCurves hold no NaN.
C15_NoNaNInOutput ==
    results # None =>
        /\ NaN \notin OutputNumbers
        /\ results.cumulativePayback # PyFloat(NaN)

\* a result whose schedule had a NaN, now null, and whose metrics had one
C15_Witness ==
    /\ pc = "responded"
    /\ \E j \in DOMAIN df : df[j]["net_income"] = NaN
                               /\ results.monthlySchedule[j]["net_income"] = Null
    /\ \E k \in DOMAIN total_metrics : total_metrics[k] = NaN

\* the metrics of the whole period have been computed
Measured == pc \in {"measured", "returned"} \/ (pc = "responded" /\ results # None)

\* the first calendar year of the annual summary (its years are consecutive)
FirstYear == CHOOSE y \in DOMAIN annual_summary : \A z \in DOMAIN annual_summary : y <= z

\* the net income of the year at position p of the annual summary
YearIncome(p) == annual_summary[FirstYear + p - 1]["net_income"]

\* the positions of the years whose previous year has a net income that is
\* not 0
ValidPairs == {p \in 2..Cardinality(DOMAIN annual_summary) : YearIncome(p - 1) # 0}

\* the sum over a set of positions of the growth of the year on the year
\* before it
RECURSIVE GrowthSum(_)
GrowthSum(ps) ==
    IF ps = {} THEN 0
    ELSE LET p == CHOOSE q \in ps : TRUE
         IN  Div(YearIncome(p) - YearIncome(p - 1), YearIncome(p - 1)) + GrowthSum(ps \ {p})

\* C16: net_income_aagr is the mean of (y[i] - y[i-1]) / y[i-1] over the
\* consecutive years whose y[i-1] is not 0; it is 0 for a series that stays
\* the same and 0 when no pair has a denominator that is not 0.
C16_AagrIsMeanOfValidGrowth ==
    Measured =>
        /\ ValidPairs # {} =>
               total_metrics["net_income_aagr"] =
                   Div(GrowthSum(ValidPairs), FromInt(Cardinality(ValidPairs)))
        /\ ValidPairs = {} => total_metrics["net_income_aagr"] = 0
        /\ (\A p \in 2..Cardinality(DOMAIN annual_summary) : YearIncome(p) = YearIncome(1)) =>
               total_metrics["net_income_aagr"] = 0

\* a summary of three years, the first without net income, the last with
\* more than the second: one pair of two counts, and the growth is not 0
C16_Witness ==
    /\ Measured
    /\ Cardinality(DOMAIN annual_summary) = 3
    /\ Cardinality(ValidPairs) = 1
    /\ total_metrics["net_income_aagr"] > 0

\* the annual summary of a full schedule has been built
Summarised == i > 0 /\ pc \in {"summarised", "paid_back", "measured", "returned"}

\* the rows of the schedule dated in calendar year y
MonthsOfYear(y) == {j \in 1..Len(dates) : YearOf(dates[j]) = y}

\* the last row of the schedule dated in calendar year y
LastMonthOfYear(y) == CHOOSE j \in MonthsOfYear(y) : \A l \in MonthsOfYear(y) : l <= j

\* the arithmetic mean of column c over the months of year y (inf when a
\* month is inf)
MeanOfYear(c, y) ==
    IF \E j \in MonthsOfYear(y) : df[j][c] = Inf THEN Inf
    ELSE Div(SumColumn(df, c, y, Len(dates)), FromInt(Cardinality(MonthsOfYear(y))))

\* the columns of balances and ratios
BalanceColumns ==
    {"loan_balance", "line_balance", "deposit_balance", "total_assets",
     "total_liabilities", "total_equity", "efficiency_ratio"}

\* the columns of deferred balances
DeferredColumns == {"deferred_origination_fees", "deferred_costs"}

\* C17: in every row of the annual summary the balance and ratio columns
\* are the arithmetic mean of the months of the year, the deferred balances
\* are the value of the last month of the year, and only the other columns,
\* the flows, are the sums of the months of the year.
C17_AnnualBalancesAreMeans ==
    Summarised =>
        \A y \in DOMAIN annual_summary :
            /\ \A c \in BalanceColumns : annual_summary[y][c] = MeanOfYear(c, y)
            /\ \A c \in DeferredColumns : annual_summary[y][c] = df[LastMonthOfYear(y)][c]
            /\ \A c \in Columns \ (BalanceColumns \cup DeferredColumns) :
                   annual_summary[y][c] = SumColumn(df, c, y, Len(dates))

\* a summary with a year of twelve months that all carry a loan balance
C17_Witness ==
    /\ Summarised
    /\ \E y \in DOMAIN annual_summary :
           /\ Cardinality(MonthsOfYear(y)) = 12
           /\ \A j \in MonthsOfYear(y) : df[j]["loan_balance"] > 0
           /\ annual_summary[y]["loan_balance"] > df[LastMonthOfYear(y)]["loan_balance"]

\* C18: in every month from the hire date on and before the first
\* production date the salary, benefits, incentive compensation and
\* discretionary expenses all accrue: the incentive compensation expense is
\* the salary expense times the incentive compensation percentage and is part
\* of non_interest_expense, while the balances and the income items are 0.
C18_IncentiveAccruesBeforeProduction ==
    \A j \in 1..i :
        (rm_hire_date <= dates[j] /\ dates[j] < first_production_date) =>
            /\ df[j]["incentive_compensation_expense"] =
                   Mul(df[j]["salary_expense"], incentive_compensation_percentage)
            /\ df[j]["non_interest_expense"] =
                   df[j]["salary_expense"] + df[j]["benefits_expense"]
                       + Mul(df[j]["salary_expense"], incentive_compensation_percentage)
                       + df[j]["discretionary_expense"]
            /\ \A c \in ZeroBeforeProduction : df[j][c] = 0

\* a month before the first production date has been computed for a
\* positive salary and a positive incentive compensation percentage
C18_Witness ==
    /\ i > 0
    /\ dates[1] < first_production_date
    /\ df[1]["salary_expense"] > 0
    /\ df[1]["benefits_expense"] > 0
    /\ df[1]["discretionary_expense"] > 0
    /\ incentive_compensation_percentage > 0

\* C19: the fixed input of the integration-test endpoint passes validation,
\* so the calculation succeeds on it and the endpoint answers 200 with
\* "Integration test passed", not 500.
C19_IntegrationTestPasses ==
    (pc = "responded" /\ given = test_data) =>
        /\ validate_inputs(given).err = NoError
        /\ results # None
        /\ response.status = 200
        /\ response.message = "Integration test passed"

\* the integration test has been answered
C19_Witness ==
    /\ pc = "responded"
    /\ given = test_data
    /\ response.status \in {200, 500}
    /\ error.field = "rmHireDate"

\* annualProduction[year].loans x p / (1 - p) / 12 for the row of index idx,
\* p the stored fraction loanVsLinePercentage
LineShareOfProduction(idx) ==
    Div(Div(Mul(AnnualProduction(ProductionYear(idx), "loans"), In("loanVsLinePercentage")),
            FromInt(1) - In("loanVsLinePercentage")),
        FromInt(12))

\* C20: in every production month line_monthly_production is
\* annualProduction[year].loans x p / (1 - p) / 12 with p the stored
\* fraction loanVsLinePercentage (p = 0.5 gives the production of the loans),
\* and the unused commitment fee is charged on the same value.
C20_LineProductionFromFraction ==
    \A j \in 1..i :
        (dates[j] >= first_production_date /\ In("loanVsLinePercentage") # FromInt(1)) =>
            /\ df[j]["line_monthly_production"] = LineShareOfProduction(j - 1)
            /\ df[j]["unused_commitment_fees"] =
                   Mul(Mul(df[j]["line_monthly_production"],
                           FromInt(1) - In("lineUtilizationPercentage")),
                       In("unusedCommitmentFeePercentage"))

\* a production month computed for a loanVsLinePercentage of 50 percent
C20_Witness ==
    /\ i > 0
    /\ dates[i] >= first_production_date
    /\ In("loanVsLinePercentage") = FromInt(1) \div 2
    /\ df[i]["loan_monthly_production"] > 0
    /\ df[i]["line_monthly_production"] > 0

\* C21: for every production year k in 0..4 and every tenor t of the grid,
\* the rate of the curve of year k at t is the base rate at t plus
\* goingOnYields[k].loans as the stored fraction (3 percent shifts every rate
\* by 0.03).
C21_CurveIsBasePlusStoredYield ==
    DOMAIN yield_curves # {} =>
        \A k \in 0..(CurveYears - 1) : \A j \in 1..Len(tenors) :
            yield_curves[AddYears(first_production_date, k)][tenors[j]] =
                base_rates[j] + GoingOnYields(k, "loans")

\* the curves have been built for a yield on loans of 3 percent in every year
C21_Witness ==
    /\ DOMAIN yield_curves # {}
    /\ \A k \in 0..(CurveYears - 1) : GoingOnYields(k, "loans") = 3 * (Scale \div 100)
    /\ pc = "curved"

\* C22: in every production month interest_expense is deposit_balance times
\* goingOnYields[year].deposits / 12, the yield taken as the stored fraction
\* (1 percent on a balance of 1,200,000 gives 1,000 a month).
C22_InterestExpenseFromStoredYield ==
    \A j \in 1..i :
        dates[j] >= first_production_date =>
            df[j]["interest_expense"] =
                Mul(df[j]["deposit_balance"],
                    Div(GoingOnYields(ProductionYear(j - 1), "deposits"), FromInt(12)))

\* a production month with deposits and a deposit yield of 1 percent
C22_Witness ==
    /\ i > 0
    /\ dates[i] >= first_production_date
    /\ df[i]["deposit_balance"] > 0
    /\ GoingOnYields(ProductionYear(i - 1), "deposits") = Scale \div 100

\* the production years whose curve has a key date (the first production
\* date plus that many years) on or before the date dt
CurveYearsUpTo(dt) == {k \in 0..(CurveYears - 1) : AddYears(first_production_date, k) <= dt}

\* the curve whose key date is the latest one on or before the date dt
LatestCurve(dt) ==
    yield_curves[AddYears(first_production_date,
                          CHOOSE k \in CurveYearsUpTo(dt) : \A l \in CurveYearsUpTo(dt) : l <= k)]

\* C23: every production month is priced with the curve whose key date is
\* the latest one on or before the date of the month, a key equal to the date
\* included; every production month has such a curve, so that the lookup
\* never fails.
C23_LatestCurvePricesTheMonth ==
    /\ error.text # "max() arg is an empty sequence"
    /\ DOMAIN yield_curves # {} =>
           \A j \in 1..Len(dates) :
               dates[j] >= first_production_date => CurveYearsUpTo(dates[j]) # {}
    /\ \A j \in 1..i :
           dates[j] >= first_production_date =>
               /\ df[j]["interest_income_loans"] =
                      Mul(df[j]["loan_balance"],
                          Div(get_rate(LatestCurve(dates[j]), In("averageLifeLoans")),
                              FromInt(12)))
               /\ df[j]["interest_income_lines"] =
                      Mul(df[j]["line_balance"],
                          Div(get_rate(LatestCurve(dates[j]), In("averageLifeLines")),
                              FromInt(12)))

\* a month of the second production year priced with a curve that differs
\* from the curve of the first, and a month dated on a key date
C23_Witness ==
    /\ i > 13
    /\ dates[i] >= AddYears(first_production_date, 1)
    /\ LatestCurve(dates[i]) # yield_curves[first_production_date]
    /\ df[i]["interest_income_loans"] > 0
    /\ \E j \in 1..i : dates[j] = first_production_date

\* row j (counted from 1) is the first production month
FirstProductionMonth(j) == j = 1 \/ dates[j - 1] < first_production_date

\* the deferred balance of column c before row j: 0 in the first production
\* month
PriorDeferred(j, c) == IF FirstProductionMonth(j) THEN 0 ELSE df[j - 1][c]

\* the loan and line balance before row j taken together
PriorCombinedBalance(j) ==
    IF FirstProductionMonth(j) THEN 0 ELSE df[j - 1]["loan_balance"] + df[j - 1]["line_balance"]

\* the production of loans and lines of row j
TotalProduction(j) ==
    Div(AnnualProduction(ProductionYear(j - 1), "loans"), FromInt(12))
        + df[j]["line_monthly_production"]

\* the fees deferred in row j
NewFees(j) == Mul(TotalProduction(j), In("originationFeePercentage"))

\* the direct costs deferred in row j
NewDirectCosts(j) ==
    Mul(Div(TotalProduction(j), In("avgLoanExposureAtOrigination")), direct_cost_per_loan.n)

\* the amortization of row j on the prior deferred balance of column c:
\* the regular one at the effective rate and the one driven by prepayments
AmortizationDue(j, c) ==
    Mul(PriorDeferred(j, c),
        Div(Div(NewFees(j) - NewDirectCosts(j), TotalProduction(j)),
            Mul(In("averageLifeLoans"), FromInt(12))))
    + (IF PriorCombinedBalance(j) > 0
       THEN Mul(Div(Mul(PriorCombinedBalance(j),
                        Div(In("prepayPercentageOfBalance"), FromInt(12))),
                    PriorCombinedBalance(j)),
                PriorDeferred(j, c))
       ELSE 0)

\* C24: in every production month each deferred balance, of fees and of
\* direct costs, is the prior balance plus the new amount less the regular
\* and the prepayment-driven amortization, the latter being (prepayment
\* amount / prior combined balance) x prior deferred balance and 0 when the
\* prior combined balance is not positive; in the first production month the
\* prior balances are 0 and nothing is amortized.
C24_DeferredRecurrence ==
    \A j \in 1..i :
        dates[j] >= first_production_date =>
            /\ df[j]["origination_fees"] = AmortizationDue(j, "deferred_origination_fees")
            /\ df[j]["deferred_cost_amortization"] = AmortizationDue(j, "deferred_costs")
            /\ df[j]["deferred_origination_fees"] =
                   PriorDeferred(j, "deferred_origination_fees") + NewFees(j)
                       - df[j]["origination_fees"]
            /\ df[j]["deferred_costs"] =
                   PriorDeferred(j, "deferred_costs") + NewDirectCosts(j)
                       - df[j]["deferred_cost_amortization"]
            /\ FirstProductionMonth(j) =>
                   df[j]["origination_fees"] = 0 /\ df[j]["deferred_cost_amortization"] = 0

\* a production month after the first in which fees and costs were
\* amortized, by prepayments among others
C24_Witness ==
    /\ i > 1
    /\ dates[i - 1] >= first_production_date
    /\ PriorCombinedBalance(i) > 0
    /\ In("prepayPercentageOfBalance") > 0
    /\ df[i]["origination_fees"] > 0
    /\ df[i]["deferred_cost_amortization"] > 0

\* the income items of row j
MonthIncome(j) ==
    df[j]["interest_income_loans"] + df[j]["interest_income_lines"]
        + df[j]["non_interest_income"]

\* the expense items of row j
MonthExpenses(j) ==
    df[j]["interest_expense"] + df[j]["non_interest_expense"] + df[j]["provision_expense"]

\* the income of the rows 1..j
RECURSIVE IncomeUpTo(_)
IncomeUpTo(j) == IF j = 0 THEN 0 ELSE IncomeUpTo(j - 1) + MonthIncome(j)

\* the expenses of the rows 1..j
RECURSIVE ExpensesUpTo(_)
ExpensesUpTo(j) == IF j = 0 THEN 0 ELSE ExpensesUpTo(j - 1) + MonthExpenses(j)

\* C25: in every month cumulative_income and cumulative_expenses are the
\* running sums, from the first month on, of the income and the expense
\* items, cumulative_profit is their difference and is the sum of net_income
\* up to the month: the series the payback scans, the cumulative sum of
\* net_income, is the cumulative_profit column.
C25_CumulativeColumnsAreRunningSums ==
    \A j \in 1..i :
        /\ df[j]["cumulative_income"] = IncomeUpTo(j)
        /\ df[j]["cumulative_expenses"] = ExpensesUpTo(j)
        /\ df[j]["cumulative_profit"] = df[j]["cumulative_income"] - df[j]["cumulative_expenses"]
        /\ df[j]["cumulative_profit"] = cumulative_net(df, j)

\* two years of months computed, with income and a provision expense in the
\* last and a loss carried from the months before production
C25_Witness ==
    /\ i > 24
    /\ df[1]["cumulative_profit"] < 0
    /\ MonthIncome(i) > 0
    /\ df[i]["provision_expense"] > 0
    /\ df[i]["cumulative_income"] > MonthIncome(i)

\* row j was computed as a month before production: no production, no
\* balance, no income
TreatedAsPreProduction(j) ==
    /\ df[j]["loan_monthly_production"] = 0
    /\ df[j]["provision_expense"] = 0
    /\ \A c \in ZeroBeforeProduction : df[j][c] = 0

\* row j was computed as a production month: the loans of its production
\* year are produced and provided for
TreatedAsProduction(j) ==
    /\ df[j]["loan_monthly_production"] =
           Div(AnnualProduction(ProductionYear(j - 1), "loans"), FromInt(12))
    /\ df[j]["provision_expense"] = Mul(df[j]["loan_monthly_production"], ProvisionRate)

\* row j was computed as a month of the hired RM: the salary of the months
\* since the hire is booked
TreatedAsHired(j) ==
    df[j]["salary_expense"] =
        _calculate_salary_expense((YearOf(dates[j]) - YearOf(rm_hire_date)) * 12
                                      + (MonthOf(dates[j]) - MonthOf(rm_hire_date)))

\* C26: the phase of a month is decided by its date alone and moves one way:
\* no row is before the hire date, the rows before the first production date
\* come first and are computed as months before production, every row from
\* the first production date on is computed as a production month, and no
\* row after a production month is before the first production date.
C26_PhasesFollowDates ==
    dates # <<>> =>
        /\ \A j \in 1..Len(dates) : dates[j] >= rm_hire_date
        /\ \A j \in 1..Len(dates) : \A l \in j..Len(dates) :
               dates[j] >= first_production_date => dates[l] >= first_production_date
        /\ \A j \in 1..i :
               /\ TreatedAsHired(j)
               /\ IF dates[j] >= first_production_date
                  THEN TreatedAsProduction(j)
                  ELSE TreatedAsPreProduction(j)

\* a schedule computed up to a production month, after months before
\* production, for an RM hired in the middle of a month
C26_Witness ==
    /\ dates # <<>>
    /\ DayOf(rm_hire_date) # 1
    /\ i > 1
    /\ dates[1] < first_production_date
    /\ dates[i] >= first_production_date
    /\ df[i]["loan_monthly_production"] > 0

\* the lists of annualProduction and of goingOnYields have five elements
FiveYearsGiven ==
    /\ Len(inputs["annualProduction"].items) = 5
    /\ Len(inputs["goingOnYields"].items) = 5

\* C27: for every production month, those at or beyond 60 months since the
\* first production included, the production-year index lies in 0..4, so
\* that with five years of annualProduction and goingOnYields no lookup by
\* year is out of range, and the months beyond the fifth year use the values
\* of the year of index 4.
C27_YearIndexIsClamped ==
    dates # <<>> =>
        /\ \A j \in 1..Len(dates) :
               dates[j] >= first_production_date =>
                   ProductionYear(j - 1) \in 0..LastYearIndex
        /\ FiveYearsGiven => error.text # "list index out of range"
        /\ \A j \in 1..i :
               MonthsSinceProduction(j - 1) >= 12 * HorizonYears =>
                   /\ df[j]["loan_monthly_production"] =
                          Div(inputs["annualProduction"].items[5]["loans"].n, FromInt(12))
                   /\ df[j]["deposit_balance"] - df[j - 1]["deposit_balance"] =
                          Div(inputs["annualProduction"].items[5]["deposits"].n, FromInt(12))

\* the month 60 months after the first production has been computed, with
\* a fifth year whose loans differ from those of the fourth
C27_Witness ==
    /\ i > 0
    /\ MonthsSinceProduction(i - 1) = 12 * HorizonYears
    /\ FiveYearsGiven
    /\ AnnualProduction(4, "loans") # AnnualProduction(3, "loans")
    /\ df[i]["loan_monthly_production"] > 0

\* a row of cells that hold an amount no step has written
StrayRow == [c \in Columns |-> IF c = "fas91_balance" THEN 0 ELSE FromInt(7)]

\* the frame with every row but those at the positions of keep replaced by
\* a stray row
WithStrayRows(frame, keep) ==
    [j \in DOMAIN frame |-> IF j \in keep THEN frame[j] ELSE StrayRow]

\* the loop stands before a month that it will compute
BeforeMonth == pc = "rolling" /\ i < Len(dates) /\ MonthError(i) = NoError

\* C28: the step of month i writes only cells of row i and reads only rows i
\* and i-1: it leaves every other row as it was, what it writes does not
\* depend on any row but these two, and it does not depend on what row i held
\* before the step, so that no cell is read before it is written.
C28_StepOwnsItsRow ==
    BeforeMonth =>
        \E after \in {MonthRow(i, df)} :
            /\ \A j \in DOMAIN df \ {i + 1} : after[j] = df[j]
            /\ MonthRow(i, WithStrayRows(df, {i, i + 1}))[i + 1] = after[i + 1]
            /\ MonthRow(i, WithStrayRows(df, DOMAIN df \ {i + 1}))[i + 1] = after[i + 1]
            /\ \A j \in 1..i : \A c \in Columns : df[j][c] # NaN

\* the loop stands before a production month that follows production months
C28_Witness ==
    /\ BeforeMonth
    /\ i > 2
    /\ dates[i - 1] >= first_production_date
    /\ df[i]["loan_balance"] > 0
    /\ df[i + 1]["loan_balance"] = NaN

\* the call is the second one: its map is the map of a first call with
\* another goingOnYields[k]['lines']
SecondCall == given \notin LinesRequests

\* C29: goingOnYields[k].lines has no influence on the result: the second of
\* two calls whose maps differ only in a parseable goingOnYields[k].lines
\* does not fail, and the monthlySchedule, annualSummary, totalMetrics,
\* cumulativePayback and yieldCurves it returns are those the first call
\* returned.
C29_LinesHaveNoInfluence ==
    [][SecondCall => (pc' # "raised" /\ results' = results)]_vars

\* the second call has returned a schedule with interest income on lines,
\* and its goingOnYields[k]['lines'] is not the 2 percent of the first call
C29_Witness ==
    /\ SecondCall
    /\ pc = "returned"
    /\ \E k \in 0..(CurveYears - 1) : GoingOnYields(k, "lines") # ParsePercentageVal(PyInt(2))
    /\ \E j \in DOMAIN results.monthlySchedule :
           results.monthlySchedule[j]["interest_income_lines"] > 0

\* the key of the curve _initialize_yield_curves builds for the
\* production-year index of row j (counted from 1)
CurveOfProductionYear(j) == AddYears(first_production_date, ProductionYear(j - 1))

\* C30: in every production month, whatever the day of the accepted
\* firstProductionDate, the curve selected by date is the curve built for
\* the production-year index min(monthsSinceProduction // 12, 4) that
\* selects the month's annualProduction and deposit yield.
C30_CurveOfTheSameProductionYear ==
    \A j \in 1..i :
        dates[j] >= first_production_date =>
            yield_curve_date(dates[j]) = CurveOfProductionYear(j)

\* production starts in the middle of a month, and the row of the twelfth
\* month after the month of first production has been computed
C30_Witness ==
    /\ pc = "rolling"
    /\ i >= 1
    /\ DayOf(first_production_date) # 1
    /\ MonthsSinceProduction(i - 1) = 12
    /\ df[i]["interest_income_loans"] > 0

=========================================================================
